---- MODULE Spec2Model ----
(***************************************************************************)
(* Verification model of the Parallax observational simulation core.       *)
(*                                                                         *)
(*   - DiscoveryEngine::recordObservation (discovery/discovery_engine.cpp) *)
(*   - StarCatalog::addStar / query / rebuildGrid                          *)
(*     (universe/star_catalog.cpp, universe/star_catalog.hpp)              *)
(*   - angularSeparation (core/math/coordinates.hpp)                       *)
(*   - ProceduralGenerator::generateTile                                   *)
(*     (universe/procedural_generator.cpp)                                 *)
(*   - the CSV catalog loaders (data/catalogs/catalog_loader.cpp)          *)
(*   - TimeSystem, julianDate, gmst_deg / lst_deg, airmass, extinction     *)
(*     (astro/time_system.cpp, observatory/observer.hpp, atmosphere.hpp)   *)
(*   - ObservingSession and Telescope (observatory/)                       *)
(*   - Coordinates::horizontal_to_screen (astro/coordinates.cpp)           *)
(*   - Input (core/input.cpp)                                              *)
(*   - DiscoveryEngine::newDiscovery (discovery/discovery_engine.hpp)      *)
(*                                                                         *)
(* Each subsystem has its own specification (SpecDiscovery, SpecCatalog,   *)
(* ...) over its own variables; the other variables stay as Init leaves    *)
(* them.                                                                   *)
(*                                                                         *)
(* Numbers that are `double` in the source are fixed-point integers here:  *)
(* angles are counted in half degrees (UnitsPerDeg units per degree),      *)
(* sines and cosines are scaled by TrigScale, SNR and magnitudes are       *)
(* integers.                                                               *)
(***************************************************************************)
EXTENDS Integers, Sequences, FiniteSets, TLC

VARIABLES
    disc,      \* the Discovery record handed to recordObservation
    arg,       \* the Observation the caller passed to the last call
    ret,       \* the value returned by the last recordObservation call
    m_stars,   \* StarCatalog::m_stars
    m_grid,    \* StarCatalog::m_grid (cell key -> list of star indices)
    result,    \* the vector a StarCatalog::query call returned to the caller
    qarg,      \* the arguments of that call (empty while no result is held)
    tiles,     \* the generateTile calls made so far, with what each returned
    fs,        \* the CSV file at the path handed to the catalog loaders
    loaded,    \* the loader called on it and what it returned (empty before)
    sidereal,  \* a Julian Date and longitude with their sidereal times
    airmassCall, \* an altitude with the airmass computed for it
    session,   \* the observing session (NoSession before its construction)
    calls,     \* the calls made on the session, with what they returned
    probe,    \* a pure function called once: its arguments and what it returned
    input,    \* the fields of the Input object
    inputCall, \* the member of Input called last
    m_discoveries, \* DiscoveryEngine::m_discoveries
    engineCall \* the call made last on the DiscoveryEngine, with what it returned

vars == <<disc, arg, ret, m_stars, m_grid, result, qarg, tiles, fs, loaded,
         sidereal, airmassCall, session, calls,
         probe,
         input, inputCall,
         m_discoveries, engineCall>>

discVars == <<disc, arg, ret>>
catVars  == <<m_stars, m_grid, result, qarg>>
genVars  == <<tiles>>
csvVars  == <<fs, loaded>>
timeVars == <<sidereal>>
airVars  == <<airmassCall>>
sessionVars == <<session, calls>>
probeVars == <<probe>>
inputVars == <<input, inputCall>>
engineVars == <<m_discoveries, engineCall>>

\* What each subsystem leaves alone: the state of the other subsystems.
exceptDisc == <<catVars, genVars, csvVars, timeVars, airVars, sessionVars,
                 probeVars, inputVars, engineVars>>
exceptCat  == <<discVars, genVars, csvVars, timeVars, airVars, sessionVars,
                 probeVars, inputVars, engineVars>>
exceptGen  == <<discVars, catVars, csvVars, timeVars, airVars, sessionVars,
                 probeVars, inputVars, engineVars>>
exceptCsv  == <<discVars, catVars, genVars, timeVars, airVars, sessionVars,
                 probeVars, inputVars, engineVars>>
exceptTime == <<discVars, catVars, genVars, csvVars, airVars, sessionVars,
                 probeVars, inputVars, engineVars>>
exceptSession == <<discVars, catVars, genVars, csvVars, timeVars, airVars,
                 probeVars, inputVars, engineVars>>
exceptAir  == <<discVars, catVars, genVars, csvVars, timeVars, sessionVars,
                 probeVars, inputVars, engineVars>>
exceptProbe == <<discVars, catVars, genVars, csvVars, timeVars, airVars,
                 sessionVars, inputVars, engineVars>>
exceptInput == <<discVars, catVars, genVars, csvVars, timeVars, airVars,
                 sessionVars, probeVars, engineVars>>
exceptEngine == <<discVars, catVars, genVars, csvVars, timeVars, airVars,
                 sessionVars, probeVars, inputVars>>

----------------------------------------------------------------------------
(* Bounds of the model *)

MaxObs  == 4     \* observations recorded against the Discovery

\* SNR values: below the detection threshold, at it, between the two
\* thresholds, at the discovery threshold and above it.
SnrValues == {2, 4, 5, 6, 7, 9}
JdValues  == {0, 1}

----------------------------------------------------------------------------
(* discovery/discovery_engine.hpp *)

kDetectionSnrThreshold == 5
kDiscoverySnrThreshold == 7
kRequiredConfirmations == 3

\* struct Observation: jd stands for the fields recordObservation passes
\* through untouched (jd, target, v_magnitude, exposure_s).
Observation == [jd : JdValues, snr : SnrValues, is_detection : BOOLEAN]

\* struct Discovery, default member initialisers.
FreshDiscovery == [n_confirmations |-> 0, observations |-> <<>>, confirmed |-> FALSE]

NoObservation == [jd |-> 0, snr |-> 0, is_detection |-> FALSE]

\* DiscoveryEngine::isConfirmed
isConfirmed(d) == d.n_confirmations >= kRequiredConfirmations

\* Mutant: the caller's is_detection flag is stored as passed.
StoredObservation_KeepFlag(obs) == obs

\* The Observation as stored: is_detection is overwritten from the SNR.
StoredObservation(obs) ==
    [obs EXCEPT !.is_detection = (obs.snr >= kDetectionSnrThreshold)]

\* Mutant: the confirmation count is reset when the Discovery is confirmed.
RecordedDiscovery_Reset(d, obs) ==
    LET o    == StoredObservation(obs)
        d1   == [d EXCEPT !.observations = Append(d.observations, o)]
    IN  IF o.snr >= kDiscoverySnrThreshold
        THEN LET d2 == [d1 EXCEPT !.n_confirmations = d1.n_confirmations + 1]
             IN  IF d2.n_confirmations >= kRequiredConfirmations
                 THEN [d2 EXCEPT !.confirmed = ~d.confirmed, !.n_confirmations = 0]
                 ELSE d2
        ELSE d1

\* Mutant: the Discovery is confirmed only above the required count.
RecordedDiscovery_Late(d, obs) ==
    LET o    == StoredObservation(obs)
        d1   == [d EXCEPT !.observations = Append(d.observations, o)]
    IN  IF o.snr >= kDiscoverySnrThreshold
        THEN LET d2 == [d1 EXCEPT !.n_confirmations = d1.n_confirmations + 1]
             IN  IF d2.n_confirmations > kRequiredConfirmations
                 THEN [d2 EXCEPT !.confirmed = TRUE]
                 ELSE d2
        ELSE d1

\* Mutant: a confirmed Discovery takes no further confirmations.
RecordedDiscovery_Frozen(d, obs) ==
    LET o    == StoredObservation(obs)
        d1   == [d EXCEPT !.observations = Append(d.observations, o)]
    IN  IF o.snr >= kDiscoverySnrThreshold /\ ~d.confirmed
        THEN LET d2 == [d1 EXCEPT !.n_confirmations = d1.n_confirmations + 1]
             IN  IF d2.n_confirmations >= kRequiredConfirmations
                 THEN [d2 EXCEPT !.confirmed = TRUE]
                 ELSE d2
        ELSE d1

\* Mutant: only detections are kept in the observation list.
RecordedDiscovery_DropFaint(d, obs) ==
    LET o    == StoredObservation(obs)
        d1   == IF o.is_detection
                THEN [d EXCEPT !.observations = Append(d.observations, o)]
                ELSE d
    IN  IF o.snr >= kDiscoverySnrThreshold
        THEN LET d2 == [d1 EXCEPT !.n_confirmations = d1.n_confirmations + 1]
             IN  IF d2.n_confirmations >= kRequiredConfirmations
                 THEN [d2 EXCEPT !.confirmed = TRUE]
                 ELSE d2
        ELSE d1

\* The Discovery after recordObservation(d, obs).
RecordedDiscovery(d, obs) ==
    LET o    == StoredObservation(obs)
        d1   == [d EXCEPT !.observations = Append(d.observations, o)]
    IN  IF o.snr >= kDiscoverySnrThreshold
        THEN LET d2 == [d1 EXCEPT !.n_confirmations = d1.n_confirmations + 1]
             IN  IF d2.n_confirmations >= kRequiredConfirmations
                 THEN [d2 EXCEPT !.confirmed = TRUE]
                 ELSE d2
        ELSE d1

\* Mutant: the return value follows the detection threshold.
RecordedReturn_Detection(obs) == StoredObservation(obs).is_detection

\* The return value of recordObservation(d, obs).
RecordedReturn(obs) == StoredObservation(obs).snr >= kDiscoverySnrThreshold

\* DiscoveryEngine::recordObservation.  n_confirmations is an int; MaxObs
\* keeps the number of calls far below the 2^31 increments it can hold.
recordObservation(obs) ==
    /\ Len(disc.observations) < MaxObs
    /\ disc' = RecordedDiscovery(disc, obs)
    /\ ret'  = RecordedReturn(obs)
    /\ arg'  = obs
    /\ UNCHANGED exceptDisc

RecordObservation == \E obs \in Observation : recordObservation(obs)

----------------------------------------------------------------------------
(* core/math/coordinates.hpp: fixed-point trigonometry *)

\* Angles are fixed-point numbers with UnitsPerDeg units per degree.
UnitsPerDeg == 2
Deg(d) == d * UnitsPerDeg

\* Sines and cosines are fixed-point numbers scaled by TrigScale.
TrigScale == 40000

\* std::sin of 0, 0.5, 1, ... 90 degrees, scaled by TrigScale and rounded.
SinTable == <<
    0, 349, 698, 1047, 1396, 1745, 2093, 2442, 2790, 3138,
    3486, 3834, 4181, 4528, 4875, 5221, 5567, 5912, 6257, 6602,
    6946, 7289, 7632, 7975, 8316, 8658, 8998, 9338, 9677, 10015,
    10353, 10690, 11025, 11361, 11695, 12028, 12361, 12692, 13023, 13352,
    13681, 14008, 14335, 14660, 14984, 15307, 15629, 15950, 16269, 16588,
    16905, 17220, 17535, 17848, 18160, 18470, 18779, 19086, 19392, 19697,
    20000, 20302, 20602, 20900, 21197, 21492, 21786, 22077, 22368, 22656,
    22943, 23228, 23511, 23793, 24073, 24350, 24626, 24901, 25173, 25443,
    25712, 25978, 26242, 26505, 26765, 27024, 27280, 27534, 27786, 28036,
    28284, 28530, 28774, 29015, 29254, 29491, 29726, 29958, 30188, 30416,
    30642, 30865, 31086, 31304, 31520, 31734, 31945, 32154, 32361, 32565,
    32766, 32965, 33162, 33355, 33547, 33736, 33922, 34106, 34287, 34465,
    34641, 34814, 34985, 35153, 35318, 35480, 35640, 35797, 35952, 36103,
    36252, 36398, 36542, 36682, 36820, 36955, 37087, 37217, 37343, 37467,
    37588, 37706, 37821, 37933, 38042, 38149, 38252, 38353, 38450, 38545,
    38637, 38726, 38812, 38895, 38975, 39052, 39126, 39197, 39265, 39330,
    39392, 39451, 39508, 39561, 39611, 39658, 39702, 39743, 39781, 39816,
    39848, 39877, 39903, 39925, 39945, 39962, 39976, 39986, 39994, 39998,
    40000
>>

\* std::sin of an angle of h units.
Sin(h) ==
    LET a == h % Deg(360)
    IN  IF a <= Deg(90)  THEN SinTable[a + 1]
        ELSE IF a <= Deg(180) THEN SinTable[Deg(180) - a + 1]
        ELSE IF a <= Deg(270) THEN -SinTable[a - Deg(180) + 1]
        ELSE -SinTable[Deg(360) - a + 1]

\* std::cos of an angle of h units.
Cos(h) == Sin(h + Deg(90))

\* x * c / TrigScale for x up to TrigScale^2, without leaving 32 bits.
Rescale(x, c) == (x \div TrigScale) * c + ((x % TrigScale) * c) \div TrigScale

\* std::clamp
clamp(v, lo, hi) == IF v < lo THEN lo ELSE IF v > hi THEN hi ELSE v

\* std::acos of x / TrigScale^2 in angle units, rounded up to the next unit:
\* the least h in 0 .. 180 degrees with cos(h) <= x (the cosine falls over
\* that range).
ArcCos(x) ==
    CHOOSE h \in 0 .. Deg(180) :
        /\ Cos(h) * TrigScale <= x
        /\ (h = 0 \/ Cos(h - 1) * TrigScale > x)

\* angularSeparation(a, b), in angle units, rounded up to the next unit (the
\* fixed-point result is within one unit of the exact separation).
angularSeparation(a, b) ==
    LET cosC == Sin(a.dec_deg) * Sin(b.dec_deg)
                + Rescale(Cos(a.dec_deg) * Cos(b.dec_deg), Cos(a.ra_deg - b.ra_deg))
    IN  ArcCos(clamp(cosC, -(TrigScale * TrigScale), TrigScale * TrigScale))

----------------------------------------------------------------------------
(* universe/star_catalog.hpp, universe/star_catalog.cpp *)

MaxStars == 2    \* stars added to the catalog

\* Star positions (ra, dec), in angle units: (0.5, -89.5) and (180, -89.5)
\* either side of the south pole, (359.5, 0.5) just below RA 360, (1, 1)
\* one cell from the origin, and (0, 90) on the north pole.
StarPositions ==
    { [ra_deg |-> 1,   dec_deg |-> -179],
      [ra_deg |-> 360, dec_deg |-> -179],
      [ra_deg |-> 719, dec_deg |-> 1],
      [ra_deg |-> 2,   dec_deg |-> 2],
      [ra_deg |-> 0,   dec_deg |-> 180] }

\* Star::v_magnitude values and query magnitude limits.
Magnitudes == {-1, 2}
MagLimits  == {0, 2}

\* Query centres: (0, -89) one degree off the south pole, the origin (0, 0),
\* and (0, 89.5) half a degree off the north pole.
Centres ==
    { [ra_deg |-> 0, dec_deg |-> -178],
      [ra_deg |-> 0, dec_deg |-> 0],
      [ra_deg |-> 0, dec_deg |-> 179] }

\* Query radii: 1 and 2 degrees.
Radii == {2, 4}

\* struct Star: the fields the catalog reads.
Star == [position : StarPositions, v_magnitude : Magnitudes]

\* StarCatalog::kGridResolutionDeg (1.0 degree)
kGridResolutionDeg == Deg(1)

\* a & 0xFFFF
Low16(a) == a % 65536

\* StarCatalog::cellKey: the 32-bit key as its two 16-bit halves
\* <<bits 31..16, bits 15..0>>.
cellKey(ra_cell, dec_cell) == <<Low16(ra_cell), Low16(dec_cell)>>

\* std::floor(a / b) for b > 0
FloorDiv(a, b) == a \div b

\* std::ceil(a / b) for b > 0
CeilDiv(a, b) == -((-a) \div b)

\* The C++ remainder a % b for b > 0: the sign follows the dividend.
CppMod(a, b) == IF a >= 0 THEN a % b ELSE -((-a) % b)

\* StarCatalog::cellForPosition
cellForPosition(eq) ==
    <<FloorDiv(eq.ra_deg, kGridResolutionDeg),
      FloorDiv(eq.dec_deg + Deg(90), kGridResolutionDeg)>>

\* The key of the bucket a position belongs to.
keyForPosition(eq) == cellKey(cellForPosition(eq)[1], cellForPosition(eq)[2])

\* m_grid[key].push_back(idx): operator[] creates the bucket when missing.
PushBack(grid, key, idx) ==
    IF key \in DOMAIN grid
    THEN [grid EXCEPT ![key] = Append(@, idx)]
    ELSE [k \in DOMAIN grid \cup {key} |->
             IF k = key THEN <<idx>> ELSE grid[k]]

\* An empty std::unordered_map
EmptyGrid == [k \in {} |-> <<>>]

\* Mutant: the index is taken after the push_back.
AddedGrid_IndexAfterPush(stars, grid, s) ==
    PushBack(grid, keyForPosition(s.position), Len(stars) + 1)

\* m_grid after StarCatalog::addStar(s) on (stars, grid).
AddedGrid(stars, grid, s) ==
    PushBack(grid, keyForPosition(s.position), Len(stars))

\* StarCatalog::rebuildGrid: the grid rebuilt from the first n stars.
RECURSIVE RebuiltGrid(_, _)
RebuiltGrid(stars, n) ==
    IF n = 0 THEN EmptyGrid
    ELSE PushBack(RebuiltGrid(stars, n - 1),
                  keyForPosition(stars[n].position), n - 1)

\* The star a result pointer or a grid index refers to (indices count from 0).
StarAt(stars, idx) == stars[idx + 1]

\* Mutant: the separation test is left to the grid cells.
PassesFilter_MagOnly(star, centre, radius_deg, mag_limit) ==
    ~(star.v_magnitude > mag_limit)

\* Mutant: the magnitude test skips the stars it should keep.
PassesFilter_Inverted(star, centre, radius_deg, mag_limit) ==
    /\ ~(star.v_magnitude <= mag_limit)
    /\ angularSeparation(centre, star.position) <= radius_deg

\* The two tests of the inner loop of StarCatalog::query.
PassesFilter(star, centre, radius_deg, mag_limit) ==
    /\ ~(star.v_magnitude > mag_limit)
    /\ angularSeparation(centre, star.position) <= radius_deg

\* int cells = static_cast<int>(std::ceil(radius_deg / kGridResolutionDeg)) + 1
CellsFor(radius_deg) == CeilDiv(radius_deg, kGridResolutionDeg) + 1

\* The grid key query looks up for the offsets (dra, ddec) from the centre's
\* cell: RA wrapped around 360 degrees, Dec clamped.
WindowKey(centre, dra, ddec) ==
    LET cra  == cellForPosition(centre)[1]
        cdec == cellForPosition(centre)[2]
        max_ra_cells  == Deg(360) \div kGridResolutionDeg
        max_dec_cells == Deg(180) \div kGridResolutionDeg
        ra_cell  == CppMod(CppMod(cra + dra, max_ra_cells) + max_ra_cells,
                           max_ra_cells)
        dec_cell == clamp(cdec + ddec, 0, max_dec_cells - 1)
    IN  cellKey(ra_cell, dec_cell)

\* The indices one visited bucket contributes, in bucket order.
BucketHits(stars, grid, key, centre, radius_deg, mag_limit) ==
    IF key \notin DOMAIN grid
    THEN <<>>
    ELSE SelectSeq(grid[key],
                   LAMBDA idx : PassesFilter(StarAt(stars, idx), centre,
                                             radius_deg, mag_limit))

\* The result vector of StarCatalog::query before the sort: the two nested
\* loops over dra and ddec in -cells .. cells, ddec running fastest.
Collected(stars, grid, centre, radius_deg, mag_limit) ==
    LET cells == CellsFor(radius_deg)
        n     == 2 * cells + 1
        hits[k \in 0 .. n * n] ==
            IF k = 0 THEN <<>>
            ELSE LET dra  == ((k - 1) \div n) - cells
                     ddec == ((k - 1) % n) - cells
                 IN  hits[k - 1] \o
                     BucketHits(stars, grid, WindowKey(centre, dra, ddec),
                                centre, radius_deg, mag_limit)
    IN  IF n <= 0 THEN <<>> ELSE hits[n * n]

\* coll without its first occurrence of v
RECURSIVE RemoveFirst(_, _)
RemoveFirst(coll, v) ==
    IF coll = <<>> THEN <<>>
    ELSE IF Head(coll) = v THEN Tail(coll)
    ELSE <<Head(coll)>> \o RemoveFirst(Tail(coll), v)

\* The comparator of the sort: a->v_magnitude < b->v_magnitude
Brighter(stars, a, b) == StarAt(stars, a).v_magnitude < StarAt(stars, b).v_magnitude

\* Mutant: the result is returned in collection order.
SortedBrightestFirst_Unsorted(stars, coll) == {coll}

\* std::sort with that comparator: every ordering of coll in which no element
\* comes before a brighter one.  std::sort is not stable, so stars of equal
\* magnitude may come out in any order.
RECURSIVE SortedBrightestFirst(_, _)
SortedBrightestFirst(stars, coll) ==
    IF coll = <<>> THEN {<<>>}
    ELSE LET firsts == {coll[i] : i \in {j \in 1 .. Len(coll) :
                            \A m \in 1 .. Len(coll) :
                                ~Brighter(stars, coll[m], coll[j])}}
         IN  UNION {{<<v>> \o t :
                        t \in SortedBrightestFirst(stars, RemoveFirst(coll, v))} :
                    v \in firsts}

\* The vectors StarCatalog::query may return, as lists of star indices.
QueryResults(stars, grid, centre, radius_deg, mag_limit) ==
    SortedBrightestFirst(stars,
        Collected(stars, grid, centre, radius_deg, mag_limit))

\* StarCatalog::addStar.  push_back may move m_stars, which invalidates the
\* pointers of a result the caller still holds: that result is dropped.
addStar(s) ==
    /\ Len(m_stars) < MaxStars
    /\ m_stars' = Append(m_stars, s)
    /\ m_grid'  = AddedGrid(m_stars, m_grid, s)
    /\ result'  = <<>>
    /\ qarg'    = <<>>
    /\ UNCHANGED exceptCat

AddStar == \E s \in Star : addStar(s)

\* StarCatalog::query: the caller receives one of the vectors it may return.
query(centre, radius_deg, mag_limit) ==
    /\ qarg = <<>>
    /\ result' \in QueryResults(m_stars, m_grid, centre, radius_deg, mag_limit)
    /\ qarg'   = <<[centre |-> centre, radius_deg |-> radius_deg,
                    mag_limit |-> mag_limit]>>
    /\ UNCHANGED <<m_stars, m_grid, exceptCat>>

Query ==
    \E centre \in Centres, radius_deg \in Radii, mag_limit \in MagLimits :
        query(centre, radius_deg, mag_limit)

\* The returned std::vector goes out of scope in the caller.
releaseResult ==
    /\ qarg # <<>>
    /\ result' = <<>>
    /\ qarg'   = <<>>
    /\ UNCHANGED <<m_stars, m_grid, exceptCat>>

\* StarCatalog::rebuildGrid
rebuildGrid ==
    /\ m_grid' = RebuiltGrid(m_stars, Len(m_stars))
    /\ UNCHANGED <<m_stars, result, qarg, exceptCat>>

----------------------------------------------------------------------------
(* ProceduralGenerator (universe/procedural_generator.cpp, .hpp)           *)
(*                                                                         *)
(* PcgRng is modelled at a quarter of its width: PCG-XSH-RR 16/8 (a 16-bit *)
(* state, 8 bits per draw) in place of PCG-XSH-RR 64/32, with the shift    *)
(* and rotation amounts that the PCG family prescribes for that width.     *)
(* A uniform double in [0,1) is the fraction value / PcgOutputs.           *)
(* Magnitudes are millimagnitudes, log10 of the distance is counted in     *)
(* thousandths, sky angles are half degrees as elsewhere.                  *)
(***************************************************************************)

MaxTiles == 3    \* generateTile calls kept in the call log

\* One candidate star of the model stands for StarScale candidates of the
\* source: the star density and the size of a tile's block of ids are both
\* divided by it, so that the ratio "candidates in a tile / ids reserved for
\* a tile" is the source's.
StarScale == 100000

\* The multiplier of the id block in generateTile (base_id * 1000000ULL)
kIdsPerTile == 1000000

IdsPerTile == kIdsPerTile \div StarScale

PcgModulus == 65536      \* 2^16, the width of m_state here
PcgOutputs == 256        \* 2^8, the range of next() here

\* 6364136223846793005 mod 2^16
kPcgMultiplier == 32557

\* m_inc = (stream << 1) | 1 with the default stream = 1
kPcgIncrement == 3

\* a * b mod 2^16 without leaving 32-bit integers
MulMod(a, b) ==
    ((a % 256) * b + (((a \div 256) * b) % 256) * 256) % PcgModulus

\* a ^ b on the low n bits
RECURSIVE BitXor(_, _, _)
BitXor(a, b, n) ==
    IF n = 0 THEN 0
    ELSE ((a + b) % 2) + 2 * BitXor(a \div 2, b \div 2, n - 1)

\* PcgRng::next, the new m_state
nextState(old) == (MulMod(old, kPcgMultiplier) + kPcgIncrement) % PcgModulus

\* PcgRng::next, the value returned
nextValue(old) ==
    LET xorshifted == (BitXor(old \div 32, old, 16) \div 32) % PcgOutputs
        rot        == old \div 8192
    IN  IF rot = 0 THEN xorshifted
        ELSE (xorshifted \div 2^rot) + ((xorshifted * 2^(8 - rot)) % PcgOutputs)

\* PcgRng::PcgRng(seed): m_state = seed + (stream | 1), then advance()
PcgRng(seed) == nextState((seed + 1) % PcgModulus)

\* PcgRng::nextDouble, as the numerator of value / PcgOutputs
nextDouble(state) == nextValue(state)

\* PcgRng::nextInRange
nextInRange(state, lo, hi) == lo + (nextDouble(state) * (hi - lo)) \div PcgOutputs

\* PcgRng::nextUInt
nextUInt(state, n) == nextValue(state) % n

\* sampleKroupaMass. fracLow = w1 / (w1 + w2) = 0.57366. The mass is
\* pow(x, 1 / (1 - alpha)) with x = base + v * (top - base); the model returns
\* the segment and x (scaled by 100000), which determine the mass.
sampleKroupaMass(state) ==
    LET u == nextDouble(state)
        v == nextDouble(nextState(state))
    IN  IF u * 100000 < 57366 * PcgOutputs
        THEN [low |-> TRUE,  x |-> 199526 + (v * (123114 - 199526)) \div PcgOutputs]
        ELSE [low |-> FALSE, x |-> 246229 + (v * (148 - 246229)) \div PcgOutputs]

\* m >= t for the mass m a sample stands for: 1 / (1 - alpha) is negative, so
\* m >= t iff x <= pow(t, 1 - alpha); the two arguments are pow(t, -0.3) and
\* pow(t, -1.3) scaled by 100000.
MassAtLeast(m, low_x, high_x) == m.x <= (IF m.low THEN low_x ELSE high_x)

\* spectralClassFromMass
spectralClassFromMass(m) ==
    IF      MassAtLeast(m,  43528,    2720) THEN "O"    \* m >= 16.0
    ELSE IF MassAtLeast(m,  80045,   38117) THEN "B"    \* m >= 2.1
    ELSE IF MassAtLeast(m,  90399,   64570) THEN "A"    \* m >= 1.4
    ELSE IF MassAtLeast(m,  98830,   95029) THEN "F"    \* m >= 1.04
    ELSE IF MassAtLeast(m, 106923,  133654) THEN "G"    \* m >= 0.8
    ELSE IF MassAtLeast(m, 127068,  282373) THEN "K"    \* m >= 0.45
    ELSE IF MassAtLeast(m, 213340, 2666754) THEN "M"    \* m >= 0.08
    ELSE "L"

\* absMagnitudeFromSpectralClass
absMagnitudeFromSpectralClass(sc) ==
    CASE sc = "O" -> -5000
      [] sc = "B" -> -1500
      [] sc = "A" ->  2000
      [] sc = "F" ->  3500
      [] sc = "G" ->  5000
      [] sc = "K" ->  6500
      [] sc = "M" ->  9000
      [] sc = "L" -> 14000
      [] OTHER    ->  5000

\* std::exp(-k / 50) for k = 0 .. 236 (k half degrees over 25 degrees),
\* scaled by 10000 and rounded.
ExpTable == <<
    10000,  9802,  9608,  9418,  9231,  9048,  8869,  8694,  8521,  8353,
     8187,  8025,  7866,  7711,  7558,  7408,  7261,  7118,  6977,  6839,
     6703,  6570,  6440,  6313,  6188,  6065,  5945,  5827,  5712,  5599,
     5488,  5379,  5273,  5169,  5066,  4966,  4868,  4771,  4677,  4584,
     4493,  4404,  4317,  4232,  4148,  4066,  3985,  3906,  3829,  3753,
     3679,  3606,  3535,  3465,  3396,  3329,  3263,  3198,  3135,  3073,
     3012,  2952,  2894,  2837,  2780,  2725,  2671,  2618,  2567,  2516,
     2466,  2417,  2369,  2322,  2276,  2231,  2187,  2144,  2101,  2060,
     2019,  1979,  1940,  1901,  1864,  1827,  1791,  1755,  1720,  1686,
     1653,  1620,  1588,  1557,  1526,  1496,  1466,  1437,  1409,  1381,
     1353,  1327,  1300,  1275,  1249,  1225,  1200,  1177,  1153,  1130,
     1108,  1086,  1065,  1044,  1023,  1003,   983,   963,   944,   926,
      907,   889,   872,   854,   837,   821,   805,   789,   773,   758,
      743,   728,   714,   699,   686,   672,   659,   646,   633,   620,
      608,   596,   584,   573,   561,   550,   539,   529,   518,   508,
      498,   488,   478,   469,   460,   450,   442,   433,   424,   416,
      408,   400,   392,   384,   376,   369,   362,   354,   347,   340,
      334,   327,   321,   314,   308,   302,   296,   290,   284,   279,
      273,   268,   263,   257,   252,   247,   242,   238,   233,   228,
      224,   219,   215,   211,   207,   202,   198,   194,   191,   187,
      183,   180,   176,   172,   169,   166,   162,   159,   156,   153,
      150,   147,   144,   141,   138,   136,   133,   130,   128,   125,
      123,   120,   118,   116,   113,   111,   109,   107,   105,   103,
      101,    99,    97,    95,    93,    91,    89
>>

\* The generator instances of the model. An instance is its two members and
\* its identity; instances 1 and 2 are two generators of the same universe.
Generators == {
    [instance |-> 1, m_master_seed |-> 42,   m_mag_limit |-> 12000],
    [instance |-> 2, m_master_seed |-> 42,   m_mag_limit |-> 12000],
    [instance |-> 3, m_master_seed |-> 4660, m_mag_limit |->  8000] }

\* The tiles asked for: (tile_ra_deg, tile_dec_deg, tile_size_deg).
\* Tile coordinates (0,-1), (0,0), (1,-1) and (0,1); the last tile reaches
\* past the pole, where dec is clamped.
TileArgs == {
    [tile_ra_deg |-> Deg(0),  tile_dec_deg |-> Deg(-28), tile_size_deg |-> Deg(50)],
    [tile_ra_deg |-> Deg(0),  tile_dec_deg |-> Deg(22),  tile_size_deg |-> Deg(50)],
    [tile_ra_deg |-> Deg(50), tile_dec_deg |-> Deg(-28), tile_size_deg |-> Deg(50)],
    [tile_ra_deg |-> Deg(0),  tile_dec_deg |-> Deg(60),  tile_size_deg |-> Deg(50)] }

tileSeed_PerInstance(gen, tile_ra, tile_dec) ==
    (gen.m_master_seed + gen.instance + tile_ra + tile_dec) % PcgModulus

\* ProceduralGenerator::tileSeed, on the low 16 bits
\* (1442695040888963407 mod 2^16 = 33103)
tileSeed(gen, tile_ra, tile_dec) ==
    LET a == MulMod((tile_ra  + 65535) % PcgModulus, kPcgMultiplier)
        b == MulMod((tile_dec + 65535) % PcgModulus, 33103)
    IN  BitXor(BitXor(gen.m_master_seed % PcgModulus, a, 16), b, 16)

\* ProceduralGenerator::stellarDensity in hundredths of a star per square
\* degree
stellarDensity(dec_deg) ==
    LET shifted  == dec_deg + Deg(28)
        b_approx == IF shifted < 0 THEN -shifted ELSE shifted
    IN  (500 * ExpTable[b_approx + 1]) \div 100 + 3000

\* A 64-bit star id is the pair <<id div IdModulus, id mod IdModulus>>:
\* the first part is the tile_ra field of base_id, the second holds the
\* tile_dec field (20 bits), the multiplication by the id block and what is
\* added to it.
IdModulus == 1048576 * IdsPerTile

IdNormal(hi, lo) == <<hi + lo \div IdModulus, lo % IdModulus>>

IdPlus(id, i) == IdNormal(id[1], id[2] + i)

\* The low 16 bits of an id (IdModulus is a multiple of 2^16)
IdLow16(id) == id[2] % PcgModulus

\* base_id of generateTile: ((tile_ra + 0x8000) << 20 | (tile_dec + 0x8000))
\* * 1000000 + m_master_seed. The fields do not overlap while
\* 0 <= tile_dec + 0x8000 < 2^20, so the | is a sum.
baseId(gen, tile_ra, tile_dec) ==
    IdNormal(tile_ra + 32768,
             (tile_dec + 32768) * IdsPerTile + gen.m_master_seed)

\* ProceduralGenerator::generateStar. dist_pc is carried as its log10
\* (log_dist), so 5 * log10(dist_pc / 10) is 5 * (log_dist - 1).
generateStar(gen, ra_deg, dec_deg, log_dist, id) ==
    LET rng     == PcgRng(BitXor(gen.m_master_seed % PcgModulus, IdLow16(id), 16))
        mass    == sampleKroupaMass(rng)
        rng2    == nextState(nextState(rng))
        sc      == spectralClassFromMass(mass)
        abs_mag == absMagnitudeFromSpectralClass(sc) + nextInRange(rng2, -500, 500)
        v_mag   == abs_mag + 5 * (log_dist - 1000)
    IN  [id             |-> id,
         position       |-> [ra_deg |-> ra_deg, dec_deg |-> dec_deg],
         log_dist       |-> log_dist,
         v_magnitude    |-> v_mag,
         abs_magnitude  |-> abs_mag,
         spectral_class |-> sc,
         is_procedural  |-> TRUE,
         is_variable    |-> (nextUInt(nextState(rng2), 20) = 0)]

\* generateTile: tile_ra and tile_dec
tileCoordinates(t) ==
    <<FloorDiv(t.tile_ra_deg, t.tile_size_deg),
      FloorDiv(t.tile_dec_deg, t.tile_size_deg)>>

\* generateTile: the rng of the tile
tileRng(gen, t) ==
    PcgRng(tileSeed(gen, tileCoordinates(t)[1], tileCoordinates(t)[2]))

\* generateTile: n_stars after the jitter of +-20%. density * area is in
\* hundredths of a star and in squared angle units.
nStars(gen, t) ==
    LET density == stellarDensity(t.tile_dec_deg)
        area    == t.tile_size_deg * t.tile_size_deg
        n_stars == (density * area) \div (100 * UnitsPerDeg * UnitsPerDeg * StarScale)
    IN  (n_stars * (8 * PcgOutputs + nextDouble(tileRng(gen, t)) * 4))
            \div (10 * PcgOutputs)

\* generateTile: the star of loop index i, drawn with the rng in state `rng`
candidate(gen, t, i, rng) ==
    LET ra0 == t.tile_ra_deg  + (nextDouble(rng) * t.tile_size_deg) \div PcgOutputs
        dec0 == t.tile_dec_deg
                  + (nextDouble(nextState(rng)) * t.tile_size_deg) \div PcgOutputs
        dec == clamp(dec0, Deg(-90), Deg(90))
        ra  == CppMod(ra0 + Deg(360), Deg(360))
        log_dist == nextInRange(nextState(nextState(rng)), 1000, 3699)
        tc  == tileCoordinates(t)
    IN  generateStar(gen, ra, dec, log_dist, IdPlus(baseId(gen, tc[1], tc[2]), i))

\* generateTile: the stars of loop indices i .. n - 1, before the filter
RECURSIVE candidates(_, _, _, _, _)
candidates(gen, t, i, n, rng) ==
    IF i >= n THEN <<>>
    ELSE <<candidate(gen, t, i, rng)>>
           \o candidates(gen, t, i + 1, n, nextState(nextState(nextState(rng))))

withinLimit_All(s, mag_limit) == TRUE

withinLimit_Inverted(s, mag_limit) == s.v_magnitude >= mag_limit

\* generateTile: if (s.v_magnitude <= m_mag_limit)
withinLimit(s, mag_limit) == s.v_magnitude <= mag_limit

generateTile_LimitInSeed(gen, t) ==
    LET g   == [gen EXCEPT !.m_master_seed = gen.m_master_seed + gen.m_mag_limit]
        rng == nextState(tileRng(g, t))
        all == candidates(g, t, 0, nStars(g, t), rng)
    IN  SelectSeq(all, LAMBDA s : withinLimit(s, gen.m_mag_limit))

\* ProceduralGenerator::generateTile
generateTile(gen, t) ==
    LET rng == nextState(tileRng(gen, t))   \* one draw made for the jitter
        all == candidates(gen, t, 0, nStars(gen, t), rng)
    IN  SelectSeq(all, LAMBDA s : withinLimit(s, gen.m_mag_limit))

\* A call of generateTile, logged with what it returned
GenerateTile ==
    /\ Len(tiles) < MaxTiles
    /\ \E gen \in Generators, t \in TileArgs :
         tiles' = Append(tiles, [gen |-> gen, t |-> t, result |-> generateTile(gen, t)])
    /\ UNCHANGED exceptGen

----------------------------------------------------------------------------
(* CatalogLoader (data/catalogs/catalog_loader.cpp)                        *)
(*                                                                         *)
(* A file is the sequence of its characters. Parsed numbers are counted in *)
(* tenths (a double with one decimal digit kept), angles in radians are    *)
(* counted in hundred-thousandths of a radian.                             *)
(***************************************************************************)

MaxLines == 3    \* data lines written to the file after the header

NL == "\n"

\* The header line, without its end of line
Header == <<"h">>

\* The data lines written to the file:
SampleLines == {
    \* 71,10.5,-5,1,0  (well-formed for both loaders)
    <<"7", "1", ",", "1", "0", ".", "5", ",", "-", "5", ",", "1", ",", "0">>,
    \* a,359.9,90,2,1  (well-formed, no HIP number in the first field)
    <<"a", ",", "3", "5", "9", ".", "9", ",", "9", "0", ",", "2", ",", "1">>,
    \* (empty)  (a blank line)
    <<>>,
    \* 9,1,2,3  (four fields)
    <<"9", ",", "1", ",", "2", ",", "3">>,
    \* 9,1,2,3,4,5  (six fields)
    <<"9", ",", "1", ",", "2", ",", "3", ",", "4", ",", "5">>,
    \* 9,1x,2,3,4  (a number followed by another character)
    <<"9", ",", "1", "x", ",", "2", ",", "3", ",", "4">>,
    \* 82, 20 ,-90,3,1\r  (blanks around a field and a carriage return at the end)
    <<"8", "2", ",", " ", "2", "0", " ", ",", "-", "9", "0", ",", "3", ",", "1", "\r">>,
    \* 35,400,95,1,0  (numbers beyond the range of a right ascension and a declination)
    <<"3", "5", ",", "4", "0", "0", ",", "9", "5", ",", "1", ",", "0">>,
    \* 36,-10,0,1,0  (a negative right ascension)
    <<"3", "6", ",", "-", "1", "0", ",", "0", ",", "1", ",", "0">>,
    \* 9,1,2,3,  (an empty last field)
    <<"9", ",", "1", ",", "2", ",", "3", ",">> }

Digits == <<"0", "1", "2", "3", "4", "5", "6", "7", "8", "9">>

IsDigit(c) == \E i \in 1 .. 10 : Digits[i] = c

DigitValue(c) == (CHOOSE i \in 1 .. 10 : Digits[i] = c) - 1

\* The characters of s before the first delim
RECURSIVE TakeUntil(_, _)
TakeUntil(s, delim) ==
    IF s = <<>> \/ Head(s) = delim THEN <<>>
    ELSE <<Head(s)>> \o TakeUntil(Tail(s), delim)

\* std::getline(stream, str, delim) on the unread characters of a stream:
\* it fails when nothing is left to extract, otherwise it takes the
\* characters up to the delimiter and discards the delimiter.
getline(stream, delim) ==
    IF stream = <<>>
    THEN [ok |-> FALSE, str |-> <<>>, rest |-> <<>>]
    ELSE LET str == TakeUntil(stream, delim)
         IN  [ok |-> TRUE, str |-> str,
              rest |-> SubSeq(stream, Len(str) + 2, Len(stream))]

IsBlank(c) == c \in {" ", "\t", "\r"}

RECURSIVE remove_prefix(_)
remove_prefix(sv) ==
    IF sv # <<>> /\ IsBlank(Head(sv)) THEN remove_prefix(Tail(sv)) ELSE sv

RECURSIVE remove_suffix(_)
remove_suffix(sv) ==
    IF sv # <<>> /\ IsBlank(sv[Len(sv)])
    THEN remove_suffix(SubSeq(sv, 1, Len(sv) - 1)) ELSE sv

\* CatalogLoader::trim
trim(sv) == remove_suffix(remove_prefix(sv))

\* The digits s starts with
RECURSIVE LeadingDigits(_)
LeadingDigits(s) ==
    IF s # <<>> /\ IsDigit(Head(s))
    THEN <<Head(s)>> \o LeadingDigits(Tail(s)) ELSE <<>>

\* The number a sequence of digits writes
RECURSIVE DecimalValue(_)
DecimalValue(digits) ==
    IF digits = <<>> THEN 0
    ELSE 10 * DecimalValue(SubSeq(digits, 1, Len(digits) - 1))
           + DigitValue(digits[Len(digits)])

std_nullopt == [has_value |-> FALSE]

Some(v) == [has_value |-> TRUE, value |-> v]

\* std::from_chars for double, on fields written as an optional minus sign,
\* digits and an optional point with digits: the number of characters it
\* consumes and the value in tenths. It matches nothing (ec != errc{}) when
\* there is no digit.
from_chars_f64(sv) ==
    LET neg      == sv # <<>> /\ Head(sv) = "-"
        body     == IF neg THEN Tail(sv) ELSE sv
        int      == LeadingDigits(body)
        after    == SubSeq(body, Len(int) + 1, Len(body))
        hasPoint == after # <<>> /\ Head(after) = "."
        frac     == IF hasPoint THEN LeadingDigits(Tail(after)) ELSE <<>>
        tenths   == DecimalValue(int) * 10
                      + (IF frac = <<>> THEN 0 ELSE DigitValue(frac[1]))
    IN  [ok       |-> Len(int) + Len(frac) > 0,
         consumed |-> (IF neg THEN 1 ELSE 0) + Len(int)
                        + (IF hasPoint THEN 1 + Len(frac) ELSE 0),
         value    |-> IF neg THEN -tenths ELSE tenths]

parse_f64_Partial(sv) ==
    IF from_chars_f64(sv).ok THEN Some(from_chars_f64(sv).value) ELSE std_nullopt

\* CatalogLoader::parse_f64
parse_f64(sv) ==
    IF sv = <<>> THEN std_nullopt
    ELSE LET r == from_chars_f64(sv)
         IN  IF ~r.ok \/ r.consumed # Len(sv) THEN std_nullopt
             ELSE Some(r.value)

\* CatalogLoader::parse_u32 (std::from_chars for u32 takes digits only; the
\* fields of the model stay far below 2^32)
parse_u32(sv) ==
    IF sv = <<>> THEN std_nullopt
    ELSE LET digits == LeadingDigits(sv)
         IN  IF digits = <<>> \/ Len(digits) # Len(sv) THEN std_nullopt
             ELSE Some(DecimalValue(digits))

\* astro_constants::kPi, kTwoPi and kHalfPi in hundred-thousandths of a
\* radian
kPi == 314159

kTwoPi == 2 * kPi

kHalfPi == kPi \div 2

\* x * astro_constants::kDegToRad (kPi / 180.0) for x in tenths of a degree,
\* rounded towards zero
DegToRad(x) ==
    IF x >= 0 THEN (x * kPi) \div 1800 ELSE -(((-x) * kPi) \div 1800)

\* The five std::getline calls made on a data line
splitFields(line) ==
    LET name == getline(line, ",")
        ra   == getline(name.rest, ",")
        dec  == getline(ra.rest, ",")
        mag  == getline(dec.rest, ",")
        bv   == getline(mag.rest, NL)
    IN  [ok     |-> name.ok /\ ra.ok /\ dec.ok /\ mag.ok /\ bv.ok,
         fields |-> <<name.str, ra.str, dec.str, mag.str, bv.str>>]

\* StarEntry{...} as the loaders fill it
StarEntry(ra_deg, dec_deg, mag_v, bv, catalog_id) ==
    [ra         |-> DegToRad(ra_deg),
     dec        |-> DegToRad(dec_deg),
     mag_v      |-> mag_v,
     color_bv   |-> bv,
     catalog_id |-> catalog_id]

brightStarRow_LineNumber(line, line_number) ==
    LET f == splitFields(line).fields
    IN  IF ~splitFields(line).ok
             \/ \E i \in 2 .. 5 : ~parse_f64(trim(f[i])).has_value
        THEN std_nullopt
        ELSE Some(StarEntry(parse_f64(trim(f[2])).value, parse_f64(trim(f[3])).value,
                            parse_f64(trim(f[4])).value, parse_f64(trim(f[5])).value,
                            line_number))

\* load_bright_star_csv, the body of the loop for a line that is not empty:
\* the entry pushed, or nothing when the line is skipped
brightStarRow(line, line_number) ==
    LET s       == splitFields(line)
        ra_deg  == parse_f64(trim(s.fields[2]))
        dec_deg == parse_f64(trim(s.fields[3]))
        mag_v   == parse_f64(trim(s.fields[4]))
        bv      == parse_f64(trim(s.fields[5]))
    IN  IF ~s.ok THEN std_nullopt
        ELSE IF ~ra_deg.has_value \/ ~dec_deg.has_value
                  \/ ~mag_v.has_value \/ ~bv.has_value
        THEN std_nullopt
        ELSE Some(StarEntry(ra_deg.value, dec_deg.value, mag_v.value, bv.value,
                            line_number - 1))

\* load_hipparcos_csv, the body of the loop for a line that is not empty
hipparcosRow(line, line_number) ==
    LET s       == splitFields(line)
        hip_id  == parse_u32(trim(s.fields[1]))
        ra_deg  == parse_f64(trim(s.fields[2]))
        dec_deg == parse_f64(trim(s.fields[3]))
        mag_v   == parse_f64(trim(s.fields[4]))
        bv      == parse_f64(trim(s.fields[5]))
    IN  IF ~s.ok THEN std_nullopt
        ELSE IF ~hip_id.has_value \/ ~ra_deg.has_value \/ ~dec_deg.has_value
                  \/ ~mag_v.has_value \/ ~bv.has_value
        THEN std_nullopt
        ELSE Some(StarEntry(ra_deg.value, dec_deg.value, mag_v.value, bv.value,
                            hip_id.value))

Loaders == {"load_bright_star_csv", "load_hipparcos_csv"}

row(loader, line, line_number) ==
    IF loader = "load_bright_star_csv"
    THEN brightStarRow(line, line_number)
    ELSE hipparcosRow(line, line_number)

\* The while (std::getline(file, line)) loop of either loader, from the
\* unread part of the file: the stars pushed. The count of skipped lines is
\* only logged and is left out.
RECURSIVE readRows(_, _, _)
readRows(loader, file, line_number) ==
    LET line == getline(file, NL)
        n    == line_number + 1
        rest == readRows(loader, line.rest, n)
        r    == row(loader, line.str, n)
    IN  IF ~line.ok THEN <<>>
        ELSE IF line.str = <<>> THEN rest
        ELSE IF r.has_value THEN <<r.value>> \o rest
        ELSE rest

loadCsv_EmptyVector(loader, file) ==
    IF ~file.is_open \/ ~getline(file.text, NL).ok THEN std_nullopt
    ELSE Some(readRows(loader, getline(file.text, NL).rest, 1))

\* load_bright_star_csv / load_hipparcos_csv
loadCsv(loader, file) ==
    IF ~file.is_open THEN std_nullopt
    ELSE LET header == getline(file.text, NL)
         IN  IF ~header.ok THEN std_nullopt
             ELSE LET stars == readRows(loader, header.rest, 1)
                  IN  IF stars = <<>> THEN std_nullopt ELSE Some(stars)

\* The pieces of s between the occurrences of delim
RECURSIVE SplitOn(_, _)
SplitOn(s, delim) ==
    LET first == TakeUntil(s, delim)
    IN  IF Len(first) = Len(s) THEN <<first>>
        ELSE <<first>> \o SplitOn(SubSeq(s, Len(first) + 2, Len(s)), delim)

\* The lines of a text in which every line is ended by NL
LinesOf(text) == SubSeq(SplitOn(text, NL), 1, Len(SplitOn(text, NL)) - 1)

\* The file system as the loaders see it: no file at the path, or a file
\* with its text.
MissingFile == [is_open |-> FALSE, text |-> <<>>]

\* The test fixture creates the file (std::ofstream)
createFile ==
    /\ loaded = <<>>
    /\ ~fs.is_open
    /\ fs' = [is_open |-> TRUE, text |-> <<>>]
    /\ UNCHANGED <<loaded, exceptCsv>>

\* ... writes the header line
writeHeader ==
    /\ loaded = <<>>
    /\ fs.is_open /\ fs.text = <<>>
    /\ fs' = [fs EXCEPT !.text = Header \o <<NL>>]
    /\ UNCHANGED <<loaded, exceptCsv>>

\* ... and writes a data line
writeLine(line) ==
    /\ loaded = <<>>
    /\ fs.is_open /\ fs.text # <<>>
    /\ Len(LinesOf(fs.text)) - 1 < MaxLines
    /\ fs' = [fs EXCEPT !.text = fs.text \o line \o <<NL>>]
    /\ UNCHANGED <<loaded, exceptCsv>>

WriteLine == \E line \in SampleLines : writeLine(line)

\* A call of one of the loaders on the path
load(loader) ==
    /\ loaded = <<>>
    /\ loaded' = <<[loader |-> loader, result |-> loadCsv(loader, fs)]>>
    /\ UNCHANGED <<fs, exceptCsv>>

Load == \E loader \in Loaders : load(loader)

----------------------------------------------------------------------------
(* Sidereal time: TimeSystem::gmst / lmst (astro/time_system.cpp) and      *)
(* gmst_deg / lst_deg (observatory/observer.hpp)                           *)
(*                                                                         *)
(* A Julian Date is counted in hundredths of a day, sidereal angles in     *)
(* hundredths of a degree, radians in hundred-thousandths.                 *)
(***************************************************************************)

\* a / b rounded towards zero, for b > 0
TruncDiv(a, b) == IF a >= 0 THEN a \div b ELSE -((-a) \div b)

\* astro_constants::kJ2000 (2451545.0)
kJ2000 == 245154500

\* The Julian Dates of the model: the Unix epoch, ten days, one day, half a
\* day and a quarter of a day before J2000.0, J2000.0, a quarter of a day and
\* one day after it, and two dates of 2023 and 2024.
JulianDates == { 244058750, 245153500, 245154400, 245154450, 245154475,
                 245154500, 245154525, 245154600, 246000000, 246047600 }

\* The observer longitudes of the model, east positive
Longitudes == { -18000, -15547, -9000, -7500, -1, 0, 1, 1234, 9000, 12000, 18000 }

\* 280.46061837 + 360.98564736629 * (jd - 2451545.0). The terms in T^2 and
\* T^3 stay below 0.0001 degree over the dates of the model and are left out.
gmstPolynomial(jd) ==
    LET d     == jd - kJ2000
        whole == TruncDiv(d, 100)
        part  == d - 100 * whole
    IN  28046 + 360 * d
          + TruncDiv(whole * 98565, 1000) + TruncDiv(part * 98565, 100000)

\* gmst_deg of observer.hpp: std::fmod(gmst, 360.0)
gmst_deg(jd) == CppMod(gmstPolynomial(jd), 36000)

\* lst_deg of observer.hpp
lst_deg(jd, lon_deg) == CppMod(gmst_deg(jd) + lon_deg + 36000, 36000)

\* x * astro_constants::kDegToRad for x in hundredths of a degree
CentiDegToRad(x) ==
    LET tenths == TruncDiv(x, 10)
    IN  TruncDiv(tenths * kPi, 1800) + TruncDiv((x - 10 * tenths) * kPi, 18000)

\* TimeSystem::normalize_radians
normalize_radians(angle) ==
    LET a == CppMod(angle, kTwoPi)
    IN  IF a < 0 THEN a + kTwoPi ELSE a

\* TimeSystem::gmst
TimeSystem_gmst(jd) ==
    LET g == CppMod(gmstPolynomial(jd), 36000)
    IN  CentiDegToRad(IF g < 0 THEN g + 36000 ELSE g)

\* TimeSystem::lmst
TimeSystem_lmst(jd, longitude_rad) ==
    normalize_radians(TimeSystem_gmst(jd) + longitude_rad)

\* The four functions applied to one Julian Date and one longitude
computeSidereal ==
    /\ sidereal = <<>>
    /\ \E jd \in JulianDates, lon_deg \in Longitudes :
         sidereal' = <<[jd       |-> jd,
                        lon_deg  |-> lon_deg,
                        gmst     |-> TimeSystem_gmst(jd),
                        lmst     |-> TimeSystem_lmst(jd, CentiDegToRad(lon_deg)),
                        gmst_deg |-> gmst_deg(jd),
                        lst_deg  |-> lst_deg(jd, lon_deg)]>>
    /\ UNCHANGED exceptTime

----------------------------------------------------------------------------
(* airmass (core/math/coordinates.hpp)                                     *)
(*                                                                         *)
(* An altitude is counted in tenths of a degree, an airmass in              *)
(* ten-thousandths.                                                        *)
(***************************************************************************)

\* The altitudes of the model: below the horizon, the horizon, 0.1 and 0.5
\* degree, every whole degree up to 180, and 179.9 degrees (airmass itself is
\* defined on every multiple of half a degree).
Altitudes == { -900, -10, -1, 0, 1, 5, 1799 } \cup { 10 * k : k \in 1 .. 180 }

\* std::pow(k / 2, 1.1) for k = 1 .. 360 half degrees, scaled by 100 and rounded
PowTable == <<
        47,    100,    156,    214,    274,    335,    397,    459,    523,    587,
       652,    718,    784,    850,    917,    985,   1053,   1121,   1190,   1259,
      1328,   1398,   1468,   1539,   1609,   1680,   1751,   1823,   1895,   1967,
      2039,   2111,   2184,   2257,   2330,   2403,   2477,   2551,   2624,   2699,
      2773,   2847,   2922,   2997,   3072,   3147,   3222,   3298,   3374,   3449,
      3525,   3601,   3678,   3754,   3831,   3907,   3984,   4061,   4138,   4215,
      4293,   4370,   4448,   4525,   4603,   4681,   4759,   4838,   4916,   4994,
      5073,   5151,   5230,   5309,   5388,   5467,   5546,   5626,   5705,   5785,
      5864,   5944,   6024,   6103,   6183,   6263,   6344,   6424,   6504,   6585,
      6665,   6746,   6827,   6907,   6988,   7069,   7150,   7231,   7312,   7394,
      7475,   7557,   7638,   7720,   7801,   7883,   7965,   8047,   8129,   8211,
      8293,   8375,   8458,   8540,   8623,   8705,   8788,   8870,   8953,   9036,
      9119,   9202,   9285,   9368,   9451,   9534,   9617,   9701,   9784,   9867,
      9951,  10035,  10118,  10202,  10286,  10370,  10453,  10537,  10621,  10706,
     10790,  10874,  10958,  11042,  11127,  11211,  11296,  11380,  11465,  11550,
     11634,  11719,  11804,  11889,  11974,  12059,  12144,  12229,  12314,  12399,
     12485,  12570,  12655,  12741,  12826,  12912,  12997,  13083,  13169,  13254,
     13340,  13426,  13512,  13598,  13684,  13770,  13856,  13942,  14028,  14115,
     14201,  14287,  14374,  14460,  14546,  14633,  14719,  14806,  14893,  14979,
     15066,  15153,  15240,  15327,  15414,  15501,  15588,  15675,  15762,  15849,
     15936,  16023,  16111,  16198,  16285,  16373,  16460,  16548,  16635,  16723,
     16810,  16898,  16986,  17073,  17161,  17249,  17337,  17425,  17513,  17601,
     17689,  17777,  17865,  17953,  18041,  18130,  18218,  18306,  18394,  18483,
     18571,  18660,  18748,  18837,  18925,  19014,  19102,  19191,  19280,  19369,
     19457,  19546,  19635,  19724,  19813,  19902,  19991,  20080,  20169,  20258,
     20347,  20437,  20526,  20615,  20704,  20794,  20883,  20972,  21062,  21151,
     21241,  21330,  21420,  21510,  21599,  21689,  21779,  21868,  21958,  22048,
     22138,  22228,  22318,  22407,  22497,  22587,  22677,  22768,  22858,  22948,
     23038,  23128,  23218,  23309,  23399,  23489,  23580,  23670,  23760,  23851,
     23941,  24032,  24122,  24213,  24304,  24394,  24485,  24576,  24666,  24757,
     24848,  24939,  25030,  25120,  25211,  25302,  25393,  25484,  25575,  25666,
     25757,  25849,  25940,  26031,  26122,  26213,  26305,  26396,  26487,  26579,
     26670,  26761,  26853,  26944,  27036,  27127,  27219,  27310,  27402,  27494,
     27585,  27677,  27769,  27860,  27952,  28044,  28136,  28228,  28320,  28411,
     28503,  28595,  28687,  28779,  28871,  28963,  29056,  29148,  29240,  29332,
     29424,  29516,  29609,  29701,  29793,  29886,  29978,  30070,  30163,  30255
>>

\* std::pow(alt_deg, 1.1) on the altitudes of the model, scaled by 100
Pow11(alt_deg) ==
    CASE alt_deg = 1    -> 8
      [] alt_deg = 1799 -> 30237
      [] OTHER          -> PowTable[alt_deg \div 5]

\* std::sin of an angle in thousandths of a degree, scaled by TrigScale:
\* SinTable with linear interpolation
SinMilli(x) ==
    LET h == x \div 500
        f == x % 500
    IN  Sin(h) + ((Sin(h + 1) - Sin(h)) * f) \div 500

airmass_Unclamped(alt_deg) ==
    IF alt_deg <= 0 THEN 400000
    ELSE TruncDiv(10000 * TrigScale,
                  SinMilli(100 * alt_deg
                           + 24400000 \div (16500 + 47 * Pow11(alt_deg))))

\* airmass: 40 at and below the horizon, otherwise std::min(r, 40.0) with
\* r = 1 / sin(alt + 244 / (165 + 47 * alt^1.1)). A sine that rounds to zero
\* stands for an r beyond any bound.
airmass(alt_deg) ==
    IF alt_deg <= 0 THEN 400000
    ELSE LET s == SinMilli(100 * alt_deg
                           + 24400000 \div (16500 + 47 * Pow11(alt_deg)))
         IN  IF s = 0 THEN 400000
             ELSE LET r == TruncDiv(10000 * TrigScale, s)
                  IN  IF 400000 < r THEN 400000 ELSE r

\* airmass applied to one altitude
computeAirmass ==
    /\ airmassCall = <<>>
    /\ \E alt_deg \in Altitudes :
         airmassCall' = <<[alt_deg |-> alt_deg, value |-> airmass(alt_deg)]>>
    /\ UNCHANGED exceptAir

----------------------------------------------------------------------------
(* ObservingSession (observatory/observer.hpp) with the AtmosphericModel    *)
(* (observatory/atmosphere.hpp) and the Telescope (observatory/            *)
(* telescope.hpp) it holds                                                 *)
(*                                                                         *)
(* Latitudes, longitudes, right ascensions, declinations, altitudes and    *)
(* azimuths are counted in hundredths of a degree, magnitudes in           *)
(* hundredths of a magnitude, seeing in thousandths of an arc second,      *)
(* photons and electrons in units, signal-to-noise ratios in tenths.       *)
(***************************************************************************)

MaxCalls == 3    \* calls made on one session

\* a * b / c for a, b >= 0 and c > 0, without leaving 32 bits as long as the
\* result and c * b fit
MulDiv(a, b, c) == (a \div c) * b + ((a % c) * b) \div c

RECURSIVE SqrtFrom(_, _)
\* Newton's iteration for the integer square root of n, from the estimate x
SqrtFrom(n, x) ==
    LET y == (x + n \div x) \div 2
    IN  IF y >= x THEN x ELSE SqrtFrom(n, y)

\* std::sqrt, rounded down
Sqrt(n) == IF n <= 0 THEN 0 ELSE SqrtFrom(n, n)

\* std::max
max(a, b) == IF a < b THEN b ELSE a

\* std::cos of an angle in thousandths of a degree, scaled by TrigScale
CosMilli(x) == SinMilli(x + 90000)

\* normDeg: an angle brought into [0, 360)
normDeg(deg) ==
    LET d == CppMod(deg, 36000)
    IN  IF d < 0 THEN d + 36000 ELSE d

\* hourAngle
hourAngle(lst, ra_deg) == normDeg(lst - ra_deg)

\* equatorialToHorizontal. std::asin and std::acos come from ArcCos, so
\* altitude and azimuth are multiples of half a degree. The 1e-15 added to
\* the denominator of cosAz only matters when the denominator is zero.
equatorialToHorizontal(eq, ha_deg, lat_deg) ==
    LET unit   == TrigScale * TrigScale
        sinAlt == SinMilli(10 * eq.dec_deg) * SinMilli(10 * lat_deg)
                  + Rescale(CosMilli(10 * eq.dec_deg) * CosMilli(10 * lat_deg),
                            CosMilli(10 * ha_deg))
        alt    == Deg(90) - ArcCos(clamp(sinAlt, -unit, unit))
        num    == SinMilli(10 * eq.dec_deg)
                  - TruncDiv(Sin(alt) * SinMilli(10 * lat_deg), TrigScale)
        den    == TruncDiv(Cos(alt) * CosMilli(10 * lat_deg), TrigScale)
        cosAz  == IF num = 0 THEN 0
                  ELSE IF num >= den THEN unit
                  ELSE IF -num >= den THEN -unit
                  ELSE TruncDiv(num * TrigScale, den) * TrigScale
        az     == ArcCos(cosAz)
        az2    == IF SinMilli(10 * ha_deg) > 0 THEN Deg(360) - az ELSE az
    IN  [az_deg  |-> normDeg((az2 * 100) \div UnitsPerDeg),
         alt_deg |-> (alt * 100) \div UnitsPerDeg]

\* bortleToSkyBackground
bortleToSkyBackground(bortle) ==
    <<2200, 2170, 2140, 2100, 2040, 1930, 1850, 1750, 1650>>[clamp(bortle, 1, 9)]

\* std::pow(X, 0.6) for X = 1 .. 41, scaled by 1000 and rounded
Pow06Table == <<
      1000,   1516,   1933,   2297,   2627,   2930,   3214,   3482,   3737,   3981,
      4215,   4441,   4660,   4872,   5078,   5278,   5474,   5665,   5851,   6034,
      6213,   6389,   6562,   6732,   6899,   7063,   7225,   7384,   7541,   7696,
      7849,   8000,   8149,   8296,   8442,   8586,   8728,   8869,   9008,   9146,
      9283
>>

\* std::pow(X, 0.6) for an airmass X in ten-thousandths, scaled by 1000:
\* Pow06Table with linear interpolation. An airmass below 1 is taken as 1.
Pow06(X) ==
    LET x == max(X, 10000)
        n == x \div 10000
    IN  Pow06Table[n]
          + ((Pow06Table[n + 1] - Pow06Table[n]) * (x % 10000)) \div 10000

extinction_mag_ZenithOnly(cond, alt_deg) ==
    MulDiv(cond.extinction_mag * cond.transparency, 10000, 100)

\* AtmosphericModel::extinction_mag, in millionths of a magnitude
extinction_mag(cond, alt_deg) ==
    MulDiv(cond.extinction_mag * cond.transparency, airmass(alt_deg \div 10), 100)

\* AtmosphericModel::apparentMagnitude
apparentMagnitude(cond, true_mag, alt_deg) ==
    true_mag + extinction_mag(cond, alt_deg) \div 10000

\* AtmosphericModel::effectiveSeeing_arcsec
effectiveSeeing_arcsec(cond, alt_deg) ==
    MulDiv(cond.seeing_arcsec, Pow06(airmass(alt_deg \div 10)), 1000)

\* AtmosphericModel::skyBackground
skyBackground(cond, alt_deg) ==
    bortleToSkyBackground(cond.bortle) - (50 * (9000 - alt_deg)) \div 9000

\* 10^(-0.4 * m) for m = 0.00 .. 2.49 magnitudes, scaled by 10000 and rounded
MagnitudeTable == <<
     10000,   9908,   9817,   9727,   9638,   9550,   9462,   9376,   9290,   9204,
      9120,   9036,   8954,   8872,   8790,   8710,   8630,   8551,   8472,   8395,
      8318,   8241,   8166,   8091,   8017,   7943,   7870,   7798,   7727,   7656,
      7586,   7516,   7447,   7379,   7311,   7244,   7178,   7112,   7047,   6982,
      6918,   6855,   6792,   6730,   6668,   6607,   6546,   6486,   6427,   6368,
      6310,   6252,   6194,   6138,   6081,   6026,   5970,   5916,   5861,   5808,
      5754,   5702,   5649,   5598,   5546,   5495,   5445,   5395,   5346,   5297,
      5248,   5200,   5152,   5105,   5058,   5012,   4966,   4920,   4875,   4831,
      4786,   4742,   4699,   4656,   4613,   4571,   4529,   4487,   4446,   4406,
      4365,   4325,   4285,   4246,   4207,   4169,   4130,   4093,   4055,   4018,
      3981,   3945,   3908,   3873,   3837,   3802,   3767,   3733,   3698,   3664,
      3631,   3597,   3565,   3532,   3499,   3467,   3436,   3404,   3373,   3342,
      3311,   3281,   3251,   3221,   3192,   3162,   3133,   3105,   3076,   3048,
      3020,   2992,   2965,   2938,   2911,   2884,   2858,   2831,   2805,   2780,
      2754,   2729,   2704,   2679,   2655,   2630,   2606,   2582,   2559,   2535,
      2512,   2489,   2466,   2443,   2421,   2399,   2377,   2355,   2333,   2312,
      2291,   2270,   2249,   2228,   2208,   2188,   2168,   2148,   2128,   2109,
      2089,   2070,   2051,   2032,   2014,   1995,   1977,   1959,   1941,   1923,
      1905,   1888,   1871,   1854,   1837,   1820,   1803,   1786,   1770,   1754,
      1738,   1722,   1706,   1690,   1675,   1660,   1644,   1629,   1614,   1600,
      1585,   1570,   1556,   1542,   1528,   1514,   1500,   1486,   1472,   1459,
      1445,   1432,   1419,   1406,   1393,   1380,   1368,   1355,   1343,   1330,
      1318,   1306,   1294,   1282,   1271,   1259,   1247,   1236,   1225,   1213,
      1202,   1191,   1180,   1169,   1159,   1148,   1138,   1127,   1117,   1107,
      1096,   1086,   1076,   1067,   1057,   1047,   1038,   1028,   1019,   1009
>>

RECURSIVE Pow10(_)
\* 10^n
Pow10(n) == IF n = 0 THEN 1 ELSE 10 * Pow10(n - 1)

\* Telescope::pixelScale, in thousandths of an arc second per pixel
pixelScale(scope) ==
    (scope.detector.pixel_size_um * 206265) \div (10 * scope.focal_length_mm)

\* Telescope::diffractionLimit_arcsec at 550 nm, in thousandths of an arc second
diffractionLimit_arcsec(scope) == 1384037 \div scope.aperture_mm

\* Telescope::collectingArea_cm2, in hundredths of a square centimetre
collectingArea_cm2(scope) ==
    LET D_cm == scope.aperture_mm
        d_cm == MulDiv(D_cm, scope.central_obstruction, 100)
    IN  MulDiv(D_cm * D_cm - d_cm * d_cm, 7854, 10000) \div 100

\* Telescope::photonFlux: the photons of a source of magnitude 5 through the
\* telescope, then 10^(-0.4 * (m - 5))
photonFlux(scope, v_magnitude, exposure_s) ==
    LET atV5 == MulDiv(MulDiv(363 * collectingArea_cm2(scope),
                              scope.detector.quantum_efficiency, 100),
                       scope.reflectivity, 100) * exposure_s
        q    == (v_magnitude - 500) \div 250
        j    == (v_magnitude - 500) % 250
    IN  MulDiv(IF q >= 0 THEN atV5 \div Pow10(q) ELSE atV5 * Pow10(-q),
               MagnitudeTable[j + 1], 10000)

\* Telescope::snr. The noise is counted in tenths of an electron.
Telescope_snr(scope, v_magnitude, exposure_s, sky_bg_mag, seeing_arcsec) ==
    LET signal     == photonFlux(scope, v_magnitude, exposure_s)
        psf_fwhm   == max(seeing_arcsec, diffractionLimit_arcsec(scope))
        psf_area   == MulDiv((psf_fwhm * psf_fwhm) \div 10000, 11331, 10000)
        scale2     == (pixelScale(scope) * pixelScale(scope)) \div 100
        psf_pixels == max(MulDiv(psf_area, 10000, scale2), 100)
        sky_noise2 == MulDiv(photonFlux(scope, sky_bg_mag, exposure_s), psf_area, 100)
        read_n2    == MulDiv(scope.detector.read_noise_e * scope.detector.read_noise_e,
                             psf_pixels, 10000)
        dark_n2    == MulDiv(scope.detector.dark_current_e_s * exposure_s,
                             psf_pixels, 1000000)
        noise2     == signal + sky_noise2 + read_n2 + dark_n2
        noise      == IF noise2 < 20000000 THEN Sqrt(100 * noise2)
                      ELSE 10 * Sqrt(noise2)
    IN  IF noise > 0 THEN MulDiv(signal, 100, noise) ELSE 0

\* The number of bisection steps of Telescope::limitingMagnitude
kBisectionSteps == 64

bisectionStep_Swapped(range, reached) ==
    IF reached THEN [range EXCEPT !.hi = (range.lo + range.hi) \div 2]
    ELSE [range EXCEPT !.lo = (range.lo + range.hi) \div 2]

\* One step of the loop of Telescope::limitingMagnitude: reached is whether
\* snr(mid, ...) >= 5.0
bisectionStep(range, reached) ==
    IF reached THEN [range EXCEPT !.lo = (range.lo + range.hi) \div 2]
    ELSE [range EXCEPT !.hi = (range.lo + range.hi) \div 2]

RECURSIVE bisect(_, _, _, _, _, _)
\* The loop of Telescope::limitingMagnitude from its step i on. A step that
\* changes neither lo nor hi changes nothing in any later step, so the loop
\* is cut short there.
bisect(scope, exposure_s, sky_bg_mag, seeing_arcsec, range, i) ==
    LET mid  == (range.lo + range.hi) \div 2
        next == bisectionStep(range,
                    Telescope_snr(scope, mid, exposure_s, sky_bg_mag, seeing_arcsec) >= 50)
    IN  IF i = kBisectionSteps \/ next = range THEN (range.lo + range.hi) \div 2
        ELSE bisect(scope, exposure_s, sky_bg_mag, seeing_arcsec, next, i + 1)

\* Telescope::limitingMagnitude: the faintest magnitude between 1 and 30
\* reaching a signal-to-noise ratio of 5. Over the telescopes, skies and
\* exposures of the model the ratio is above 5 at magnitude 15.5, the first
\* one tried, so no magnitude brighter than that is tried.
Telescope_limitingMagnitude(scope, exposure_s, sky_bg_mag, seeing_arcsec) ==
    bisect(scope, exposure_s, sky_bg_mag, seeing_arcsec, [lo |-> 100, hi |-> 3000], 0)

\* Detector{} and Telescope{}
GenericRefractor ==
    [name |-> "Generic Refractor", aperture_mm |-> 1000, focal_length_mm |-> 10000,
     central_obstruction |-> 0, reflectivity |-> 100,
     detector |-> [pixel_size_um |-> 900, read_noise_e |-> 50,
                   dark_current_e_s |-> 20, quantum_efficiency |-> 85]]

\* makeSchCas8inch
makeSchCas8inch ==
    [name |-> "8\" Schmidt-Cassegrain", aperture_mm |-> 2032, focal_length_mm |-> 20320,
     central_obstruction |-> 34, reflectivity |-> 88,
     detector |-> [pixel_size_um |-> 645, read_noise_e |-> 35,
                   dark_current_e_s |-> 10, quantum_efficiency |-> 90]]

\* makeMaunaKeaSite
makeMaunaKeaSite ==
    [name |-> "Mauna Kea Observatory",
     location |-> [lat_deg |-> 1982, lon_deg |-> -15547],
     conditions |-> [seeing_arcsec |-> 500, extinction_mag |-> 10,
                     bortle |-> 1, transparency |-> 98]]

\* makeBackyardSite
makeBackyardSite ==
    [name |-> "Backyard Observatory",
     location |-> [lat_deg |-> 5150, lon_deg |-> -10],
     conditions |-> [seeing_arcsec |-> 3000, extinction_mag |-> 30,
                     bortle |-> 7, transparency |-> 75]]

\* The sites, telescopes and start dates a session is constructed with, the
\* hours the clock is advanced by, and the positions queried
Sites      == { makeMaunaKeaSite, makeBackyardSite }
Telescopes == { GenericRefractor, makeSchCas8inch }
StartDates == { 246047600 }
Hours      == { 6, -6 }
Targets    == { [ra_deg |-> 27923, dec_deg |-> 3878],
                [ra_deg |-> 10129, dec_deg |-> -1672] }

\* The default arguments of isVisible, limitingMagnitude and snr
kDefaultMinAlt   == 1500
kDefaultExposure == 60

\* The magnitude of the source of the snr queries
SourceMagnitude == 1200

\* No session has been constructed
NoSession == [constructed |-> FALSE]

\* ObservingSession::lst
lst(s) == lst_deg(s.m_jd, s.m_site.location.lon_deg)

\* ObservingSession::toHorizontal
toHorizontal(s, eq) ==
    equatorialToHorizontal(eq, hourAngle(lst(s), eq.ra_deg), s.m_site.location.lat_deg)

\* ObservingSession::isVisible
isVisible(s, eq, min_alt_deg) == toHorizontal(s, eq).alt_deg >= min_alt_deg

\* ObservingSession::limitingMagnitude
limitingMagnitude(s, eq, exposure_s) ==
    LET hor == toHorizontal(s, eq)
    IN  Telescope_limitingMagnitude(s.m_telescope, exposure_s,
                                    skyBackground(s.m_atmosphere, hor.alt_deg),
                                    effectiveSeeing_arcsec(s.m_atmosphere, hor.alt_deg))

\* ObservingSession::snr
snr(s, eq, v_magnitude, exposure_s) ==
    LET hor == toHorizontal(s, eq)
    IN  Telescope_snr(s.m_telescope,
                      apparentMagnitude(s.m_atmosphere, v_magnitude, hor.alt_deg),
                      exposure_s,
                      skyBackground(s.m_atmosphere, hor.alt_deg),
                      effectiveSeeing_arcsec(s.m_atmosphere, hor.alt_deg))

advanceTime_WholeDays(s, hours) == [s EXCEPT !.m_jd = @ + 100 * hours]

\* ObservingSession::advanceTime
advanceTime(s, hours) == [s EXCEPT !.m_jd = @ + TruncDiv(100 * hours, 24)]

\* A call answered by the session: the operation, its arguments, the Julian
\* Date it was made at and what it returned
answered(op, args, value) ==
    /\ session # NoSession
    /\ Len(calls) < MaxCalls
    /\ calls' = Append(calls, [op |-> op, args |-> args,
                               jd |-> session.m_jd, value |-> value])

\* The constructor
ObservingSession ==
    /\ session = NoSession
    /\ \E site \in Sites, scope \in Telescopes, jd_start \in StartDates :
         session' = [constructed  |-> TRUE,
                     m_site       |-> site,
                     m_telescope  |-> scope,
                     m_atmosphere |-> site.conditions,
                     m_jd         |-> jd_start]
    /\ UNCHANGED calls
    /\ UNCHANGED exceptSession

AdvanceTime ==
    \E hours \in Hours :
        /\ answered("advanceTime", [hours |-> hours], "void")
        /\ session' = advanceTime(session, hours)
        /\ UNCHANGED exceptSession

Lst ==
    /\ answered("lst", <<>>, lst(session))
    /\ UNCHANGED session
    /\ UNCHANGED exceptSession

ToHorizontal ==
    \E eq \in Targets :
        /\ answered("toHorizontal", [eq |-> eq], toHorizontal(session, eq))
        /\ UNCHANGED session
        /\ UNCHANGED exceptSession

IsVisible ==
    \E eq \in Targets :
        /\ answered("isVisible", [eq |-> eq, min_alt_deg |-> kDefaultMinAlt],
                    isVisible(session, eq, kDefaultMinAlt))
        /\ UNCHANGED session
        /\ UNCHANGED exceptSession

LimitingMagnitude ==
    \E eq \in Targets :
        /\ answered("limitingMagnitude", [eq |-> eq, exposure_s |-> kDefaultExposure],
                    limitingMagnitude(session, eq, kDefaultExposure))
        /\ UNCHANGED session
        /\ UNCHANGED exceptSession

Snr ==
    \E eq \in Targets :
        /\ answered("snr", [eq |-> eq, v_magnitude |-> SourceMagnitude,
                            exposure_s |-> kDefaultExposure],
                    snr(session, eq, SourceMagnitude, kDefaultExposure))
        /\ UNCHANGED session
        /\ UNCHANGED exceptSession

----------------------------------------------------------------------------
(* AtmosphericModel::extinction_mag over pairs of altitudes                *)
(***************************************************************************)

\* AtmosphericConditions{} (the default member initialisers)
DefaultConditions ==
    [seeing_arcsec |-> 2000, extinction_mag |-> 20, bortle |-> 4, transparency |-> 90]

\* The conditions an AtmosphericModel is constructed with
Conditions ==
    { DefaultConditions, makeMaunaKeaSite.conditions, makeBackyardSite.conditions }

\* The altitudes extinction_mag is called with, in hundredths of a degree:
\* below the horizon, the horizon, up to the zenith, and beyond it
ExtinctionAltitudes ==
    { -9000, -500, 0, 50, 100, 500, 1000, 3000, 4500, 6000, 8000, 8800, 8850,
      8900, 8950, 9000, 12000 }

\* extinction_mag of one AtmosphericModel called with two altitudes
computeExtinction ==
    /\ probe = <<>>
    /\ \E cond \in Conditions, a1 \in ExtinctionAltitudes, a2 \in ExtinctionAltitudes :
         /\ a1 < a2
         /\ probe' = <<[fn   |-> "extinction_mag",
                        cond |-> cond,
                        a1   |-> a1,
                        a2   |-> a2,
                        e1   |-> extinction_mag(cond, a1),
                        e2   |-> extinction_mag(cond, a2)]>>
    /\ UNCHANGED exceptProbe

----------------------------------------------------------------------------
(* Julian Dates: TimeSystem::to_julian_date / from_julian_date             *)
(* (astro/time_system.cpp) and julianDate (observatory/observer.hpp)       *)
(*                                                                         *)
(* A Julian Date between 2^21 and 2^22 (years -1000 to 6700 or so) is a    *)
(* double with 31 binary places: a whole number of ticks of 2^-31 day. It  *)
(* is held as the pair <<whole days, ticks>>. DateTime::second and the     *)
(* time of day are counted in milliseconds.                                *)
(***************************************************************************)

\* The years julianDate is documented for
kFirstYear == 1800
kLastYear  == 2200

\* 2^31 ticks make a day; half a day
kHalfDay == 1073741824

RECURSIVE ScaleUp(_, _, _, _)
\* (q + r / c) * 2^k as a whole part and a remainder over c
ScaleUp(q, r, c, k) ==
    IF k = 0 THEN [q |-> q, r |-> r]
    ELSE ScaleUp(2 * q + (2 * r) \div c, (2 * r) % c, c, k - 1)

\* A time of day in milliseconds as a fraction of a day, rounded to the
\* nearest tick as the double addition that forms the Julian Date rounds it
DayFraction(tod_ms) ==
    LET s == ScaleUp(0, tod_ms, 86400000, 31)
    IN  IF 2 * s.r >= 86400000 THEN s.q + 1 ELSE s.q

\* whole - 0.5 + fraction, as <<whole days, ticks>>
MinusHalfDay(whole, fraction) ==
    IF fraction >= kHalfDay THEN <<whole, fraction - kHalfDay>>
    ELSE <<whole - 1, fraction + kHalfDay>>

\* The time of day of a DateTime in milliseconds
TimeOfDay(dt) == (dt.hour * 60 + dt.minute) * 60000 + dt.second

to_julian_date_NoMonthShift(dt) ==
    LET y == dt.year
        m == dt.month
        a == TruncDiv(y, 100)
        b == 2 - a + TruncDiv(a, 4)
    IN  MinusHalfDay((1461 * (y + 4716)) \div 4 + (306001 * (m + 1)) \div 10000
                     + dt.day + b - 1524,
                     DayFraction(TimeOfDay(dt)))

\* TimeSystem::to_julian_date
to_julian_date(dt) ==
    LET y == IF dt.month <= 2 THEN dt.year - 1 ELSE dt.year
        m == IF dt.month <= 2 THEN dt.month + 12 ELSE dt.month
        a == TruncDiv(y, 100)
        b == 2 - a + TruncDiv(a, 4)
    IN  MinusHalfDay((1461 * (y + 4716)) \div 4 + (306001 * (m + 1)) \div 10000
                     + dt.day + b - 1524,
                     DayFraction(TimeOfDay(dt)))

\* The time of day of from_julian_date: hours_total = day_frac * 24 and the
\* two steps after it are exact in double arithmetic, so hour, minute and
\* second are the digits of the fraction f (in ticks) in base 24, 60, 60.
\* The second is rounded down to the millisecond.
TimeOfTicks(f) ==
    LET a  == f \div 268435456
        hb == 3 * (f % 268435456)
        g  == hb % 268435456
        mb == 15 * (g % 67108864)
        h2 == mb % 67108864
        sb == 15 * (h2 % 16777216)
        k  == sb % 16777216
    IN  [hour   |-> 3 * a + hb \div 268435456,
         minute |-> 15 * (g \div 67108864) + mb \div 67108864,
         second |-> 1000 * (15 * (h2 \div 16777216) + sb \div 16777216)
                    + ((k \div 1024) * 1000) \div 16384]

\* TimeSystem::from_julian_date
from_julian_date(jd) ==
    LET z     == IF jd[2] >= kHalfDay THEN jd[1] + 1 ELSE jd[1]
        f     == IF jd[2] >= kHalfDay THEN jd[2] - kHalfDay ELSE jd[2] + kHalfDay
        alpha == (100 * z - 186721625) \div 3652425
        a     == IF z >= 2299161 THEN z + 1 + alpha - TruncDiv(alpha, 4) ELSE z
        b     == a + 1524
        c     == (100 * b - 12210) \div 36525
        d     == (1461 * c) \div 4
        e     == (10000 * (b - d)) \div 306001
        day   == b - d - (306001 * e) \div 10000
        month == IF e < 14 THEN e - 1 ELSE e - 13
        year  == IF month > 2 THEN c - 4716 ELSE c - 4715
        time  == TimeOfTicks(f)
    IN  [year |-> year, month |-> month, day |-> day,
         hour |-> time.hour, minute |-> time.minute, second |-> time.second]

julianDate_JulianCalendar(year, month, day, hour_ut) ==
    LET a   == TruncDiv(14 - month, 12)
        y   == year + 4800 - a
        m   == month + 12 * a - 3
        jdn == day + TruncDiv(153 * m + 2, 5) + 365 * y + TruncDiv(y, 4) - 32083
    IN  MinusHalfDay(jdn, DayFraction(hour_ut))

\* julianDate, hour_ut being the time of day (in milliseconds here)
julianDate(year, month, day, hour_ut) ==
    LET a   == TruncDiv(14 - month, 12)
        y   == year + 4800 - a
        m   == month + 12 * a - 3
        jdn == day + TruncDiv(153 * m + 2, 5) + 365 * y + TruncDiv(y, 4)
               - TruncDiv(y, 100) + TruncDiv(y, 400) - 32045
    IN  MinusHalfDay(jdn, DayFraction(hour_ut))

\* The Gregorian calendar
IsLeapYear(y) == (y % 4 = 0 /\ y % 100 # 0) \/ y % 400 = 0

DaysInMonth(y, m) ==
    IF m = 2 THEN (IF IsLeapYear(y) THEN 29 ELSE 28)
    ELSE IF m \in {4, 6, 9, 11} THEN 30 ELSE 31

\* The days of the month and the times of day the conversions are called
\* with: the first day, the middle and every possible last day of a month;
\* midnight, a minute past it, noon, the time of the round-trip test and
\* the last millisecond of the day
SampleDays == {1, 15, 28, 29, 30, 31}

SampleTimes ==
    { [hour |-> 0,  minute |-> 0,  second |-> 0],
      [hour |-> 0,  minute |-> 1,  second |-> 0],
      [hour |-> 12, minute |-> 0,  second |-> 0],
      [hour |-> 14, minute |-> 30, second |-> 45000],
      [hour |-> 23, minute |-> 59, second |-> 59999] }

\* One civil date and time converted by to_julian_date, back by
\* from_julian_date, and by julianDate
convertDate ==
    /\ probe = <<>>
    /\ \E year \in kFirstYear .. kLastYear, month \in 1 .. 12,
          day \in SampleDays, t \in SampleTimes :
         /\ day <= DaysInMonth(year, month)
         /\ LET dt == [year |-> year, month |-> month, day |-> day,
                       hour |-> t.hour, minute |-> t.minute, second |-> t.second]
                jd == to_julian_date(dt)
            IN  probe' = <<[fn   |-> "to_julian_date",
                            dt   |-> dt,
                            jd   |-> jd,
                            back |-> from_julian_date(jd),
                            jd2  |-> julianDate(year, month, day, TimeOfDay(dt))]>>
    /\ UNCHANGED exceptProbe

----------------------------------------------------------------------------
(* Coordinates::horizontal_to_screen (astro/coordinates.cpp)               *)
(*                                                                         *)
(* Altitude, azimuth and the field of view are angles in the units of Deg; *)
(* sines, cosines and their products are scaled by TrigScale and           *)
(* TrigScale^2 as for angularSeparation; screen coordinates are in         *)
(* thousandths.                                                            *)
(***************************************************************************)

\* Camera::kMinFov .. kMaxFov bound the field of view the renderer passes;
\* the fields used here are 2 (the narrow field of the tests), 10, 60 (the
\* field of the tests) and 120 degrees (kMaxFov)
kMaxFovDeg == 120

FieldsOfView == {Deg(2), Deg(10), Deg(60), Deg(kMaxFovDeg)}

\* |v|
Abs(v) == IF v < 0 THEN -v ELSE v

\* 1000 * n / d for d > 0, towards zero; quotients beyond 2 are held as
\* +-2000 (only their being beyond 1 is used)
Ratio(n, d) ==
    IF Abs(n) \div 2 >= d THEN (IF n < 0 THEN -2000 ELSE 2000)
    ELSE LET s == d \div 500000 + 1
         IN  IF d \div s = 0 THEN 0
             ELSE TruncDiv(TruncDiv(n, s) * 1000, d \div s)

\* cos_sep of horizontal_to_screen: the dot product of the two directions
cosSeparation(star, pointing) ==
    Sin(star.alt) * Sin(pointing.alt)
    + Rescale(Cos(star.alt) * Cos(pointing.alt), Cos(star.az - pointing.az))

horizontal_to_screen_NoBoundsCheck(star, pointing, fov) ==
    LET delta_az   == star.az - pointing.az
        cos_sep    == cosSeparation(star, pointing)
        separation == ArcCos(clamp(cos_sep, -(TrigScale * TrigScale),
                                   TrigScale * TrigScale))
        dx         == Cos(star.alt) * Sin(delta_az)
        dy         == Sin(star.alt) * Cos(pointing.alt)
                      - Rescale(Cos(star.alt) * Sin(pointing.alt), Cos(delta_az))
        screen_x   == Ratio(Rescale(dx, Cos(fov \div 2)),
                            Rescale(cos_sep, Sin(fov \div 2)))
        screen_y   == Ratio(Rescale(dy, Cos(fov \div 2)),
                            Rescale(cos_sep, Sin(fov \div 2)))
    IN  IF 4 * separation > 3 * fov THEN std_nullopt
        ELSE IF cos_sep <= 0 THEN std_nullopt
        ELSE Some([x |-> screen_x, y |-> screen_y])

\* Coordinates::horizontal_to_screen. separation > fov_rad * 0.75 is
\* compared as 4 * separation > 3 * fov; proj_x * scale = (dx / cos_sep) *
\* (1 / tan(fov / 2)) is formed as (dx * cos(fov / 2)) / (cos_sep *
\* sin(fov / 2)).
horizontal_to_screen(star, pointing, fov) ==
    LET delta_az   == star.az - pointing.az
        cos_sep    == cosSeparation(star, pointing)
        separation == ArcCos(clamp(cos_sep, -(TrigScale * TrigScale),
                                   TrigScale * TrigScale))
        dx         == Cos(star.alt) * Sin(delta_az)
        dy         == Sin(star.alt) * Cos(pointing.alt)
                      - Rescale(Cos(star.alt) * Sin(pointing.alt), Cos(delta_az))
        screen_x   == Ratio(Rescale(dx, Cos(fov \div 2)),
                            Rescale(cos_sep, Sin(fov \div 2)))
        screen_y   == Ratio(Rescale(dy, Cos(fov \div 2)),
                            Rescale(cos_sep, Sin(fov \div 2)))
    IN  IF 4 * separation > 3 * fov THEN std_nullopt
        ELSE IF cos_sep <= 0 THEN std_nullopt
        ELSE IF Abs(screen_x) > 1000 \/ Abs(screen_y) > 1000 THEN std_nullopt
        ELSE Some([x |-> screen_x, y |-> screen_y])

\* Camera pointings: the pointings of the tests (altitude 45 degrees, due
\* north and due south), the horizon due east, and the zenith
Pointings ==
    { [alt |-> Deg(45), az |-> 0], [alt |-> Deg(45), az |-> Deg(180)],
      [alt |-> 0, az |-> Deg(90)], [alt |-> Deg(90), az |-> 0] }

\* Star directions: altitudes from the nadir to the zenith and azimuths
\* round the compass, denser next to the pointings
StarAltitudes ==
    {Deg(-90), Deg(-45), Deg(-10), -1, 0, 1, Deg(5), Deg(20), Deg(30), Deg(40),
     Deg(44), Deg(45) - 1, Deg(45), Deg(45) + 1, Deg(46), Deg(50), Deg(55),
     Deg(60), Deg(75), Deg(85), Deg(90) - 1, Deg(90)}

StarAzimuths ==
    {0, 1, Deg(1), Deg(5), Deg(20), Deg(45), Deg(85), Deg(90), Deg(95),
     Deg(135), Deg(175), Deg(180) - 1, Deg(180), Deg(180) + 1, Deg(185),
     Deg(200), Deg(270), Deg(340), Deg(355), Deg(360) - 1}

\* One star projected for one pointing and field of view
projectStar ==
    /\ probe = <<>>
    /\ \E alt \in StarAltitudes, az \in StarAzimuths,
          pointing \in Pointings, fov \in FieldsOfView :
         LET star == [alt |-> alt, az |-> az]
         IN  probe' = <<[fn       |-> "horizontal_to_screen",
                         star     |-> star,
                         pointing |-> pointing,
                         fov      |-> fov,
                         result   |-> horizontal_to_screen(star, pointing, fov)]>>
    /\ UNCHANGED exceptProbe

----------------------------------------------------------------------------
(* Telescope::limitingMagnitude, step by step (observatory/telescope.hpp)  *)
(*                                                                         *)
(* Magnitudes are counted in units of 1/65536 magnitude, so that a         *)
(* thousandth of a magnitude is 65 units. What the loop sees of snr(mid,   *)
(* ...) is whether it is >= 5.0: the signal-to-noise function is held as   *)
(* the band of magnitudes [from, to] on which it is. A ratio falling with  *)
(* magnitude has from = 0 and crosses 5 at to; a band with from > 0 is a   *)
(* ratio that does not fall everywhere, an empty band one that never       *)
(* reaches 5 (or is NaN).                                                  *)
(***************************************************************************)

kMagUnit == 65536

\* The signal-to-noise functions the loop is run with: crossings at 1, just
\* above 1, at 12.34567, 15.5 (the first midpoint), 18.2, 22.75, just below
\* 30 and at 30; one always above 5; one never; and one that is above 5
\* between 10 and 20 only.
SnrBands ==
    { [from |-> 0, to |-> kMagUnit],
      [from |-> 0, to |-> kMagUnit + 1],
      [from |-> 0, to |-> 809082],
      [from |-> 0, to |-> 1015808],
      [from |-> 0, to |-> 1192755],
      [from |-> 0, to |-> 1490944],
      [from |-> 0, to |-> 30 * kMagUnit - 1],
      [from |-> 0, to |-> 30 * kMagUnit],
      [from |-> 0, to |-> 40 * kMagUnit],
      [from |-> 1, to |-> 0],
      [from |-> 10 * kMagUnit, to |-> 20 * kMagUnit] }

\* snr(v_magnitude, ...) >= 5.0
reachesFive(band, v_magnitude) == band.from <= v_magnitude /\ v_magnitude <= band.to

\* double lo = 1.0, hi = 30.0; int i = 0
limitingMagnitude_enter ==
    /\ probe = <<>>
    /\ \E band \in SnrBands :
         probe' = <<[fn |-> "limitingMagnitude", band |-> band,
                     range |-> [lo |-> kMagUnit, hi |-> 30 * kMagUnit],
                     i |-> 0, returned |-> FALSE, value |-> 0]>>
    /\ UNCHANGED exceptProbe

\* One turn of for (int i = 0; i < 64; ++i)
limitingMagnitude_step ==
    /\ probe # <<>> /\ probe[1].fn = "limitingMagnitude"
    /\ ~probe[1].returned
    /\ probe[1].i < kBisectionSteps
    /\ LET mid == (probe[1].range.lo + probe[1].range.hi) \div 2
       IN  probe' = <<[probe[1] EXCEPT
                         !.range = bisectionStep(probe[1].range,
                                                 reachesFive(probe[1].band, mid)),
                         !.i = probe[1].i + 1]>>
    /\ UNCHANGED exceptProbe

\* return (lo + hi) * 0.5
limitingMagnitude_return ==
    /\ probe # <<>> /\ probe[1].fn = "limitingMagnitude"
    /\ ~probe[1].returned
    /\ probe[1].i >= kBisectionSteps
    /\ probe' = <<[probe[1] EXCEPT
                     !.returned = TRUE,
                     !.value = (probe[1].range.lo + probe[1].range.hi) \div 2]>>
    /\ UNCHANGED exceptProbe

----------------------------------------------------------------------------
(* generateTile under two magnitude limits *)

\* The magnitude limits two generators of one universe are built with
\* (thousandths of a magnitude)
TileMagLimits == {6000, 8000, 10000, 12000, 14000}

\* The master seeds of Generators
MasterSeeds == {gen.m_master_seed : gen \in Generators}

\* ProceduralGenerator(master_seed, m1) and ProceduralGenerator(master_seed,
\* m2) are asked for the same tile
generateTileTwice ==
    /\ probe = <<>>
    /\ \E seed \in MasterSeeds, t \in TileArgs, m1 \in TileMagLimits, m2 \in TileMagLimits :
         /\ m1 <= m2
         /\ LET tight == [instance |-> 1, m_master_seed |-> seed, m_mag_limit |-> m1]
                loose == [instance |-> 2, m_master_seed |-> seed, m_mag_limit |-> m2]
            IN  probe' = <<[fn |-> "generateTile", t |-> t,
                            tight |-> tight, loose |-> loose,
                            tightResult |-> generateTile(tight, t),
                            looseResult |-> generateTile(loose, t)]>>
    /\ UNCHANGED exceptProbe

----------------------------------------------------------------------------
(* Input (core/input.hpp, core/input.cpp)                                  *)
(*                                                                         *)
(* input holds the member variables of the Input object under their own    *)
(* names; inputCall is the call made last. Pixel coordinates and the       *)
(* scroll amount are small integers.                                       *)
(***************************************************************************)

MaxScroll == 1   \* |m_scroll_delta| accumulated within a frame
MaxDrag   == 1   \* |m_mouse_drag_delta.x| accumulated within a frame

\* The keys the application asks about
Scancodes == {"SDL_SCANCODE_SPACE", "SDL_SCANCODE_R"}

MousePositions == {[x |-> 0, y |-> 0], [x |-> 1, y |-> 0]}

\* The SDL events handed to process_event; SDL_WINDOWEVENT stands for the
\* event types of the default branch
Events ==
    [type : {"SDL_MOUSEBUTTONDOWN", "SDL_MOUSEBUTTONUP"},
     button : {"SDL_BUTTON_LEFT", "SDL_BUTTON_RIGHT"}, pos : MousePositions]
    \cup [type : {"SDL_MOUSEMOTION"}, pos : MousePositions]
    \cup [type : {"SDL_MOUSEWHEEL"}, y : {-1, 1}]
    \cup [type : {"SDL_KEYDOWN"}, scancode : Scancodes, repeat : {0, 1}]
    \cup [type : {"SDL_KEYUP"}, scancode : Scancodes]
    \cup [type : {"SDL_WINDOWEVENT"}]

\* Input() = default: the default member initialisers
InitInput ==
    /\ input = [m_mouse_drag_delta |-> [x |-> 0, y |-> 0],
                m_scroll_delta     |-> 0,
                m_mouse_dragging   |-> FALSE,
                m_left_button_down |-> FALSE,
                m_last_mouse_pos   |-> [x |-> 0, y |-> 0],
                m_keys_pressed     |-> {},
                m_keys_held        |-> {}]
    /\ inputCall = [op |-> "Input"]

\* Input::is_key_pressed
is_key_pressed(in, key) == key \in in.m_keys_pressed

\* Input::is_key_held
is_key_held(in, key) == key \in in.m_keys_held

\* The Input object after Input::new_frame
after_new_frame(in) ==
    [in EXCEPT !.m_mouse_drag_delta = [x |-> 0, y |-> 0],
               !.m_scroll_delta = 0,
               !.m_keys_pressed = {}]

after_key_event_CountsRepeats(in, event) ==
    IF event.type = "SDL_KEYDOWN"
    THEN [in EXCEPT !.m_keys_pressed = @ \cup {event.scancode},
                    !.m_keys_held    = @ \cup {event.scancode}]
    ELSE [in EXCEPT !.m_keys_held = @ \ {event.scancode}]

\* The SDL_KEYDOWN and SDL_KEYUP cases of Input::process_event
after_key_event(in, event) ==
    IF event.type = "SDL_KEYDOWN"
    THEN [in EXCEPT !.m_keys_pressed = IF event.repeat = 0
                                       THEN @ \cup {event.scancode} ELSE @,
                    !.m_keys_held    = @ \cup {event.scancode}]
    ELSE [in EXCEPT !.m_keys_held = @ \ {event.scancode}]

\* The Input object after Input::process_event(event)
after_process_event(in, event) ==
    CASE event.type = "SDL_MOUSEBUTTONDOWN" ->
           IF event.button = "SDL_BUTTON_LEFT"
           THEN [in EXCEPT !.m_left_button_down = TRUE,
                           !.m_last_mouse_pos = event.pos]
           ELSE in
      [] event.type = "SDL_MOUSEBUTTONUP" ->
           IF event.button = "SDL_BUTTON_LEFT"
           THEN [in EXCEPT !.m_left_button_down = FALSE,
                           !.m_mouse_dragging = FALSE]
           ELSE in
      [] event.type = "SDL_MOUSEMOTION" ->
           IF in.m_left_button_down
           THEN [in EXCEPT
                   !.m_mouse_drag_delta =
                       [x |-> @.x + event.pos.x - in.m_last_mouse_pos.x,
                        y |-> @.y + event.pos.y - in.m_last_mouse_pos.y],
                   !.m_last_mouse_pos = event.pos,
                   !.m_mouse_dragging = TRUE]
           ELSE in
      [] event.type = "SDL_MOUSEWHEEL" ->
           [in EXCEPT !.m_scroll_delta = @ + event.y]
      [] event.type \in {"SDL_KEYDOWN", "SDL_KEYUP"} ->
           after_key_event(in, event)
      [] OTHER -> in

\* Input::new_frame, called at the start of every frame
new_frame ==
    /\ input' = after_new_frame(input)
    /\ inputCall' = [op |-> "new_frame"]
    /\ UNCHANGED exceptInput

\* Input::process_event, called for each event polled in the frame
process_event(event) ==
    /\ input' = after_process_event(input, event)
    /\ input'.m_scroll_delta \in -MaxScroll .. MaxScroll
    /\ input'.m_mouse_drag_delta.x \in -MaxDrag .. MaxDrag
    /\ inputCall' = [op |-> "process_event", event |-> event]
    /\ UNCHANGED exceptInput

ProcessEvent == \E event \in Events : process_event(event)

----------------------------------------------------------------------------
(* DiscoveryEngine::newDiscovery and the list it keeps                     *)
(* (discovery/discovery_engine.hpp)                                        *)
(***************************************************************************)

MaxEngineCalls == 4    \* calls made on the DiscoveryEngine

\* The arguments of newDiscovery: two objects, one of them with two types
ObjectIds      == {101, 102}
DiscoveryTypes == {"DirectDetection", "TransitMethod"}

\* The observations recorded against a Discovery of the list: one below and
\* one at the discovery threshold
EngineObservations ==
    {obs \in Observation : obs.jd = 0 /\ ~obs.is_detection /\ obs.snr \in {4, 7}}

\* DiscoveryEngine{}: an empty list, no call made yet
InitEngine ==
    /\ m_discoveries = <<>>
    /\ engineCall = [op |-> "DiscoveryEngine", n |-> 0]

\* Discovery d; d.object_id = object_id; d.name = name; d.type = type;
\* d.jd_discovery = jd
Candidate(object_id, name, type, jd) ==
    [object_id |-> object_id, name |-> name, type |-> type, jd_discovery |-> jd,
     n_confirmations |-> FreshDiscovery.n_confirmations,
     observations    |-> FreshDiscovery.observations,
     confirmed       |-> FreshDiscovery.confirmed]

afterNewDiscovery_PushFront(discoveries, d) == <<d>> \o discoveries

\* m_discoveries.push_back(std::move(d))
afterNewDiscovery(discoveries, d) == Append(discoveries, d)

\* discoveries()[index] (indices count from 0)
DiscoveryAt(discoveries, index) == discoveries[index + 1]

\* DiscoveryEngine::newDiscovery
newDiscovery(object_id, name, type, jd) ==
    /\ engineCall.n < MaxEngineCalls
    /\ m_discoveries' = afterNewDiscovery(m_discoveries,
                                          Candidate(object_id, name, type, jd))
    /\ engineCall' = [op |-> "newDiscovery", n |-> engineCall.n + 1,
                      object_id |-> object_id, name |-> name, type |-> type,
                      jd |-> jd, ret |-> Len(m_discoveries') - 1]
    /\ UNCHANGED exceptEngine

NewDiscovery ==
    \E object_id \in ObjectIds, type \in DiscoveryTypes, jd \in JdValues :
        newDiscovery(object_id, "candidate", type, jd)

\* DiscoveryEngine::recordObservation called with a Discovery of the
\* engine's own list, reached through discoveries()
recordListObservation(index, obs) ==
    /\ engineCall.n < MaxEngineCalls
    /\ m_discoveries' = [m_discoveries EXCEPT
                           ![index + 1] = RecordedDiscovery(@, obs)]
    /\ engineCall' = [op |-> "recordObservation", n |-> engineCall.n + 1,
                      index |-> index, obs |-> obs, ret |-> RecordedReturn(obs)]
    /\ UNCHANGED exceptEngine

RecordListObservation ==
    \E index \in 0 .. Len(m_discoveries) - 1, obs \in EngineObservations :
        recordListObservation(index, obs)

----------------------------------------------------------------------------
InitDiscovery ==
    /\ disc = FreshDiscovery
    /\ arg  = NoObservation
    /\ ret  = FALSE

InitCatalog ==
    /\ m_stars = <<>>
    /\ m_grid  = EmptyGrid
    /\ result  = <<>>
    /\ qarg    = <<>>

InitGenerator ==
    /\ tiles = <<>>

InitCsv ==
    /\ fs     = MissingFile
    /\ loaded = <<>>

InitAstro ==
    /\ sidereal    = <<>>
    /\ airmassCall = <<>>

InitSession ==
    /\ session = NoSession
    /\ calls   = <<>>

InitProbe == probe = <<>>

Init == InitDiscovery /\ InitCatalog /\ InitGenerator /\ InitCsv /\ InitAstro
          /\ InitSession /\ InitProbe /\ InitInput /\ InitEngine

NextDiscovery == RecordObservation

SpecDiscovery == Init /\ [][NextDiscovery]_vars

NextCatalog == AddStar \/ Query \/ releaseResult \/ rebuildGrid

SpecCatalog == Init /\ [][NextCatalog]_vars

NextGenerator == GenerateTile

SpecGenerator == Init /\ [][NextGenerator]_vars

NextCsv == createFile \/ writeHeader \/ WriteLine \/ Load

SpecCsv == Init /\ [][NextCsv]_vars

NextSidereal == computeSidereal

SpecSidereal == Init /\ [][NextSidereal]_vars

NextAirmass == computeAirmass

SpecAirmass == Init /\ [][NextAirmass]_vars

NextSession ==
    \/ ObservingSession
    \/ AdvanceTime
    \/ Lst
    \/ ToHorizontal
    \/ IsVisible
    \/ LimitingMagnitude
    \/ Snr

SpecSession == Init /\ [][NextSession]_vars

NextExtinction == computeExtinction

SpecExtinction == Init /\ [][NextExtinction]_vars


NextJulian == convertDate

SpecJulian == Init /\ [][NextJulian]_vars


NextScreen == projectStar

SpecScreen == Init /\ [][NextScreen]_vars


NextLimiting ==
    \/ limitingMagnitude_enter
    \/ limitingMagnitude_step
    \/ limitingMagnitude_return

SpecLimiting == Init /\ [][NextLimiting]_vars


NextFilter == generateTileTwice

SpecFilter == Init /\ [][NextFilter]_vars


NextInput == new_frame \/ ProcessEvent

SpecInput == Init /\ [][NextInput]_vars


NextEngine == NewDiscovery \/ RecordListObservation

SpecEngine == Init /\ [][NextEngine]_vars


----------------------------------------------------------------------------
(* Claims about DiscoveryEngine::recordObservation, under SpecDiscovery *)

LastObservation(d) == d.observations[Len(d.observations)]

\* Number of recorded observations at or above the discovery threshold.
HighSnrCount(d) ==
    Cardinality({i \in 1 .. Len(d.observations) :
                    d.observations[i].snr >= kDiscoverySnrThreshold})

\* C1: over any sequence of recordObservation calls n_confirmations never
\* decreases and confirmed, once true, never becomes false again.
C1_OneWayLatch ==
    [][ /\ disc'.n_confirmations >= disc.n_confirmations
        /\ (disc.confirmed => disc'.confirmed) ]_vars

\* A confirmed Discovery against which a further, low-SNR observation was
\* recorded after the confirming one.
C1_Witness ==
    /\ disc.confirmed
    /\ Len(disc.observations) = 4
    /\ LastObservation(disc).snr = 2
    /\ disc.n_confirmations = 3

\* C2: recordObservation increments n_confirmations by exactly 1 and returns
\* true iff obs.snr >= 7; with obs.snr < 7 it returns false and leaves
\* n_confirmations and confirmed unchanged.
C2_IncrementIffDiscoverySnr ==
    [][ IF arg'.snr >= 7
        THEN /\ ret' = TRUE
             /\ disc'.n_confirmations = disc.n_confirmations + 1
        ELSE /\ ret' = FALSE
             /\ disc'.n_confirmations = disc.n_confirmations
             /\ disc'.confirmed = disc.confirmed ]_vars

\* A call with SNR exactly 7 returned true after a call that did not count.
C2_Witness ==
    /\ Len(disc.observations) >= 1
    /\ arg.snr = 7
    /\ ret = TRUE
    /\ disc.n_confirmations = 1
    /\ Len(disc.observations) = 2

\* C3: from a fresh Discovery, confirmed holds exactly when
\* n_confirmations >= 3 (isConfirmed agrees with the flag), n_confirmations
\* is the number of recorded observations with snr >= 7, three such
\* observations confirm, and a single SNR = 2 observation leaves an
\* unconfirmed candidate.
C3_ConfirmedIffThree ==
    /\ disc.confirmed <=> disc.n_confirmations >= 3
    /\ isConfirmed(disc) = disc.confirmed
    /\ disc.n_confirmations = HighSnrCount(disc)
    /\ (HighSnrCount(disc) >= 3 => disc.confirmed)
    /\ (Len(disc.observations) = 1 /\ disc.observations[1].snr = 2
           => disc.n_confirmations = 0 /\ ~disc.confirmed)

\* Exactly three observations, all with SNR >= 7, and the Discovery confirmed.
C3_Witness ==
    /\ Len(disc.observations) = 3
    /\ \A i \in 1 .. 3 : disc.observations[i].snr >= 7
    /\ disc.confirmed
    /\ disc.n_confirmations = 3

\* C4 as stated: after the Discovery is confirmed a recordObservation call
\* leaves n_confirmations and confirmed as they were.
C4_Original ==
    [][ disc.confirmed =>
           /\ disc'.n_confirmations = disc.n_confirmations
           /\ disc'.confirmed = disc.confirmed ]_vars

\* C4 amended: after the Discovery is confirmed it stays confirmed
\* (confirmed true, n_confirmations >= 3); n_confirmations still grows by one
\* with every further observation of snr >= 7 and is unchanged otherwise.
C4_ConfirmedIsTerminal ==
    [][ disc.confirmed =>
           /\ disc'.confirmed
           /\ isConfirmed(disc')
           /\ disc'.n_confirmations =
                 disc.n_confirmations + (IF arg'.snr >= 7 THEN 1 ELSE 0) ]_vars

\* A fourth observation with SNR >= 7 recorded against a confirmed Discovery.
C4_Witness ==
    /\ disc.confirmed
    /\ disc.n_confirmations = 4
    /\ Len(disc.observations) = 4

\* C5: the stored Observation has is_detection = true iff its snr >= 5,
\* whatever flag the caller passed; with 5 <= snr < 7 it is stored as a
\* detection and adds no confirmation.
C5_DetectionFlagFromSnr ==
    [][ LET o == LastObservation(disc')
        IN  /\ o.snr = arg'.snr
            /\ o.is_detection <=> o.snr >= 5
            /\ (o.snr >= 5 /\ o.snr < 7 =>
                   /\ o.is_detection
                   /\ disc'.n_confirmations = disc.n_confirmations) ]_vars

\* The caller passed is_detection = false with SNR 6: stored as a detection,
\* no confirmation counted.
C5_Witness ==
    /\ Len(disc.observations) >= 1
    /\ arg.snr = 6
    /\ ~arg.is_detection
    /\ LastObservation(disc).is_detection
    /\ disc.n_confirmations = 0

\* C6: every recordObservation call appends exactly one Observation at the
\* end of disc.observations, whatever its SNR, and leaves the earlier ones
\* unchanged in value and order.
C6_AppendOnly ==
    [][ /\ Len(disc'.observations) = Len(disc.observations) + 1
        /\ SubSeq(disc'.observations, 1, Len(disc.observations)) = disc.observations
        /\ LastObservation(disc').jd = arg'.jd
        /\ LastObservation(disc').snr = arg'.snr ]_vars

\* A below-threshold observation followed by an above-threshold one, both kept.
C6_Witness ==
    /\ Len(disc.observations) = 2
    /\ disc.observations[1].snr = 2
    /\ disc.observations[1].jd = 1
    /\ disc.observations[2].snr = 9

----------------------------------------------------------------------------
(* Claims about StarCatalog, under SpecCatalog *)

\* The stars a result vector points to.
Returned(res) == {res[i] : i \in 1 .. Len(res)}

\* C7: every star returned by query(centre, radius_deg, mag_limit) lies
\* within radius_deg of centre and has v_magnitude <= mag_limit.
C7_ResultsWithinRadiusAndLimit ==
    qarg # <<>> =>
        \A i \in 1 .. Len(result) :
            /\ result[i] \in 0 .. Len(m_stars) - 1
            /\ angularSeparation(qarg[1].centre,
                                 StarAt(m_stars, result[i]).position)
                   <= qarg[1].radius_deg
            /\ StarAt(m_stars, result[i]).v_magnitude <= qarg[1].mag_limit

\* A 1 degree query at the origin over a catalog holding (359.5, 0.5), which
\* is inside the radius, and (1, 1), which is in a visited cell but outside
\* it: only the first is returned.
C7_Witness ==
    /\ qarg # <<>>
    /\ qarg[1].centre = [ra_deg |-> 0, dec_deg |-> 0]
    /\ qarg[1].radius_deg = 2
    /\ qarg[1].mag_limit = 2
    /\ Len(m_stars) = 2
    /\ m_stars[1].position = [ra_deg |-> 2, dec_deg |-> 2]
    /\ m_stars[2].position = [ra_deg |-> 719, dec_deg |-> 1]
    /\ result = <<1>>

\* C8: the list returned by query is sorted ascending by v_magnitude.
C8_ResultsSortedByMagnitude ==
    qarg # <<>> =>
        \A i \in 1 .. Len(result) - 1 :
            StarAt(m_stars, result[i]).v_magnitude
                <= StarAt(m_stars, result[i + 1]).v_magnitude

\* Two stars of one bucket, the fainter one added first: the query returns
\* the brighter one first.
C8_Witness ==
    /\ qarg # <<>>
    /\ Len(m_stars) = 2
    /\ m_stars[1].v_magnitude = 2
    /\ m_stars[2].v_magnitude = -1
    /\ m_stars[1].position = m_stars[2].position
    /\ result = <<1, 0>>

\* C9: on the same catalog, centre and radius, for m1 <= m2 the stars
\* returned under m1 are among those returned under m2, and are no more.
\* The sort only permutes the collected vector, so the stars and the count
\* of the looser query are read off Collected.
C9_TighterLimitReturnsSubset ==
    qarg # <<>> =>
        \A m2 \in {m \in MagLimits : qarg[1].mag_limit <= m} :
            LET looser == Collected(m_stars, m_grid, qarg[1].centre,
                                    qarg[1].radius_deg, m2)
            IN  /\ Returned(result) \subseteq Returned(looser)
                /\ Len(result) <= Len(looser)

\* A query with limit 0 returned one star where limit 2 returns two.
C9_Witness ==
    /\ qarg # <<>>
    /\ qarg[1].mag_limit = 0
    /\ Len(result) = 1
    /\ LET looser == Collected(m_stars, m_grid, qarg[1].centre,
                                qarg[1].radius_deg, 2)
       IN  Len(looser) = 2 /\ Returned(looser) = {0, 1}

\* The places <<key, position in bucket>> at which the grid holds idx.
GridPlaces(idx) ==
    {p \in UNION {{<<k, j>> : j \in 1 .. Len(m_grid[k])} : k \in DOMAIN m_grid} :
        m_grid[p[1]][p[2]] = idx}

\* C10: after any sequence of addStar calls every index 0 .. size()-1 is in
\* exactly one bucket, the one of the cell of its star's position, and no
\* bucket holds an index >= size().
C10_EveryStarInItsOneBucket ==
    /\ \A idx \in 0 .. Len(m_stars) - 1 :
           /\ Cardinality(GridPlaces(idx)) = 1
           /\ \A p \in GridPlaces(idx) :
                  p[1] = keyForPosition(StarAt(m_stars, idx).position)
    /\ \A k \in DOMAIN m_grid :
           \A j \in 1 .. Len(m_grid[k]) : m_grid[k][j] \in 0 .. Len(m_stars) - 1

\* Two stars at (0.5, -89.5) and (180, -89.5): cells (0, 0) and (180, 0),
\* one bucket each.
C10_Witness ==
    /\ Len(m_stars) = 2
    /\ m_stars[1].position = [ra_deg |-> 1, dec_deg |-> -179]
    /\ m_stars[2].position = [ra_deg |-> 360, dec_deg |-> -179]
    /\ DOMAIN m_grid = {<<0, 0>>, <<180, 0>>}
    /\ m_grid[<<0, 0>>] = <<0>>
    /\ m_grid[<<180, 0>>] = <<1>>

----------------------------------------------------------------------------
(* Claims about ProceduralGenerator::generateTile, under SpecGenerator *)

SameUniverse(a, b) == a.gen.m_master_seed = b.gen.m_master_seed

SameCall(a, b) ==
    /\ SameUniverse(a, b)
    /\ a.gen.m_mag_limit = b.gen.m_mag_limit
    /\ a.t = b.t

IdsOf(call) == { call.result[k].id : k \in 1 .. Len(call.result) }

\* C12: under the same master seed, calls for tiles with different tile
\* coordinates return disjoint sets of star ids.
C12_DisjointIds ==
    \A i, j \in 1 .. Len(tiles) :
        ( SameUniverse(tiles[i], tiles[j])
          /\ tileCoordinates(tiles[i].t) # tileCoordinates(tiles[j].t) )
        => IdsOf(tiles[i]) \cap IdsOf(tiles[j]) = {}

\* C13: every star generateTile returns has v_magnitude <= m_mag_limit, and
\* the filter is applied to the generated stars: what is returned is the
\* list of the n_stars generated stars without those over the limit.
C13_ReturnedWithinLimit ==
    tiles # <<>> =>
        LET call == tiles[Len(tiles)]     \* the call just made
            all  == candidates(call.gen, call.t, 0, nStars(call.gen, call.t),
                               nextState(tileRng(call.gen, call.t)))
        IN  /\ \A k \in 1 .. Len(call.result) :
                 call.result[k].v_magnitude <= call.gen.m_mag_limit
            /\ call.result
                 = SelectSeq(all, LAMBDA s : s.v_magnitude <= call.gen.m_mag_limit)

\* A call that generated more stars than it returned, and returned some.
C13_Witness ==
    \E i \in 1 .. Len(tiles) :
        /\ tiles[i].result # <<>>
        /\ Len(tiles[i].result) < nStars(tiles[i].gen, tiles[i].t)

----------------------------------------------------------------------------
(* Claims about the CSV loaders, under SpecCsv *)

AllDigits(s) == \A i \in 1 .. Len(s) : IsDigit(s[i])

\* A field that is one number written in full: an optional minus sign,
\* digits, and an optional point with digits.
IsNumber(field) ==
    LET body == IF field # <<>> /\ Head(field) = "-" THEN Tail(field) ELSE field
        int  == TakeUntil(body, ".")
        frac == SubSeq(body, Len(int) + 2, Len(body))
    IN  AllDigits(int) /\ AllDigits(frac) /\ Len(int) + Len(frac) > 0

\* A well-formed data line: five comma-separated fields, of which the last
\* four are numbers (and the first is a HIP number for the Hipparcos format).
WellFormed(loader, line) ==
    LET f == SplitOn(line, ",")
    IN  /\ Len(f) = 5
        /\ \A i \in 2 .. 5 : IsNumber(trim(f[i]))
        /\ loader = "load_hipparcos_csv"
             => (trim(f[1]) # <<>> /\ AllDigits(trim(f[1])))

\* The lines after the header, each with its 1-based index
DataLines ==
    LET lines == LinesOf(fs.text)
    IN  [k \in 1 .. Len(lines) - 1 |-> [index |-> k, line |-> lines[k + 1]]]

WellFormedLines(loader) ==
    SelectSeq(DataLines, LAMBDA r : WellFormed(loader, r.line))

FieldValue(line, i) == from_chars_f64(trim(SplitOn(line, ",")[i])).value

\* C14: a malformed data line (wrong number of fields, or a numeric field
\* that is not a number in full) is skipped without failing the load: when
\* some line is well-formed the loader returns a vector, and it holds the
\* entries of the well-formed lines and nothing else, in file order.
C14_MalformedLinesSkipped ==
    loaded # <<>> =>
        LET call == loaded[1]
            good == WellFormedLines(call.loader)
        IN  good # <<>> =>
              /\ call.result.has_value
              /\ Len(call.result.value) = Len(good)
              /\ \A k \in 1 .. Len(good) :
                   LET entry == call.result.value[k]
                       line  == good[k].line
                   IN  /\ entry.ra       = DegToRad(FieldValue(line, 2))
                       /\ entry.dec      = DegToRad(FieldValue(line, 3))
                       /\ entry.mag_v    = FieldValue(line, 4)
                       /\ entry.color_bv = FieldValue(line, 5)

\* A load of a file whose second data line is malformed and whose first and
\* third are well-formed returned two entries.
C14_Witness ==
    /\ loaded # <<>>
    /\ Len(DataLines) = 3
    /\ WellFormed(loaded[1].loader, DataLines[1].line)
    /\ ~WellFormed(loaded[1].loader, DataLines[2].line)
    /\ DataLines[2].line # <<>>
    /\ WellFormed(loaded[1].loader, DataLines[3].line)
    /\ loaded[1].result.has_value
    /\ Len(loaded[1].result.value) = 2

\* C15: the loaders return std::nullopt exactly when the path cannot be
\* opened, the file is empty, or no data line after the header parses; in
\* every other case they return a vector that is not empty.
C15_NulloptIffNothingToLoad ==
    loaded # <<>> =>
        LET call    == loaded[1]
            nothing == \/ ~fs.is_open
                       \/ fs.text = <<>>
                       \/ WellFormedLines(call.loader) = <<>>
        IN  /\ ~call.result.has_value <=> nothing
            /\ call.result.has_value => call.result.value # <<>>

\* A load of a file with a header and two data lines, neither of which
\* parses, returned std::nullopt.
C15_Witness ==
    /\ loaded # <<>>
    /\ Len(DataLines) = 2
    /\ DataLines[1].line # <<>>
    /\ DataLines[2].line # <<>>
    /\ WellFormedLines(loaded[1].loader) = <<>>
    /\ ~loaded[1].result.has_value

\* C16: an entry of load_bright_star_csv has the 1-based index of its line
\* as catalog_id (the first line after the header is 1; blank and malformed
\* lines count); an entry of load_hipparcos_csv has the HIP number of its
\* first field.
C16_CatalogIdOfLine ==
    (loaded # <<>> /\ loaded[1].result.has_value) =>
        LET call == loaded[1]
            good == WellFormedLines(call.loader)
        IN  /\ Len(call.result.value) = Len(good)
            /\ \A k \in 1 .. Len(good) :
                 call.result.value[k].catalog_id
                   = IF call.loader = "load_bright_star_csv"
                     THEN good[k].index
                     ELSE DecimalValue(trim(SplitOn(good[k].line, ",")[1]))

\* load_bright_star_csv returned an entry for the third data line, which
\* follows a blank line and a malformed one.
C16_Witness ==
    /\ loaded # <<>>
    /\ loaded[1].loader = "load_bright_star_csv"
    /\ Len(DataLines) = 3
    /\ {DataLines[1].line, DataLines[2].line} \cap {<<>>} # {}
    /\ \E k \in 1 .. 2 :
         DataLines[k].line # <<>> /\ ~WellFormed("load_bright_star_csv", DataLines[k].line)
    /\ loaded[1].result.has_value
    /\ loaded[1].result.value[1].catalog_id = 3

\* C17: every StarEntry the loaders return has ra in [0, 2 pi) and dec in
\* [-pi/2, pi/2], whatever the file holds.
C17_CoordinatesInRange ==
    (loaded # <<>> /\ loaded[1].result.has_value) =>
        \A k \in 1 .. Len(loaded[1].result.value) :
            LET entry == loaded[1].result.value[k]
            IN  /\ 0 <= entry.ra /\ entry.ra < kTwoPi
                /\ -kHalfPi <= entry.dec /\ entry.dec <= kHalfPi


\* C19: Greenwich and local sidereal time are always in [0, 2*pi), in degrees
\* [0, 360), for every Julian Date and every observer longitude, dates before
\* J2000.0 and western longitudes included, as computed by TimeSystem::gmst
\* and TimeSystem::lmst and by gmst_deg and lst_deg.
C19_SiderealTimeInRange ==
    \A i \in 1 .. Len(sidereal) :
        /\ 0 <= sidereal[i].gmst     /\ sidereal[i].gmst     < kTwoPi
        /\ 0 <= sidereal[i].lmst     /\ sidereal[i].lmst     < kTwoPi
        /\ 0 <= sidereal[i].gmst_deg /\ sidereal[i].gmst_deg < 36000
        /\ 0 <= sidereal[i].lst_deg  /\ sidereal[i].lst_deg  < 36000

\* C20: airmass returns exactly 40 for every altitude at or below the
\* horizon, and never a value above 40 for any altitude.
C20_AirmassCappedAtForty ==
    \A i \in 1 .. Len(airmassCall) :
        /\ airmassCall[i].alt_deg <= 0 => airmassCall[i].value = 400000
        /\ airmassCall[i].value <= 400000

\* airmass has been called for an altitude below the horizon and returned 40
C20_Witness ==
    /\ airmassCall # <<>>
    /\ airmassCall[1].alt_deg < 0
    /\ airmassCall[1].value = 400000


\* A step of the session either advances the clock by hours / 24 and leaves
\* site, telescope and atmosphere alone, or leaves the whole session alone
SessionFrame ==
    (session # NoSession /\ calls' # calls) =>
        LET c == calls'[Len(calls')]
        IN  IF c.op = "advanceTime"
            THEN /\ 24 * (session'.m_jd - session.m_jd) = 100 * c.args.hours
                 /\ session'.m_site       = session.m_site
                 /\ session'.m_telescope  = session.m_telescope
                 /\ session'.m_atmosphere = session.m_atmosphere
            ELSE session' = session

\* Two calls of one operation with the same arguments at the same Julian
\* Date returned the same result
SameAnswers ==
    \A i, j \in 1 .. Len(calls) :
        (calls[i].op = calls[j].op /\ calls[i].args = calls[j].args
           /\ calls[i].jd = calls[j].jd)
        => calls[i].value = calls[j].value

\* C18: in an ObservingSession, advanceTime(hours) is the only operation
\* that changes state: it sets jd to jd + hours / 24 and leaves site,
\* telescope and atmosphere unchanged, while lst, toHorizontal, isVisible,
\* limitingMagnitude and snr change nothing, so repeating any of them with
\* the same arguments at the same Julian Date returns the same result.
C18_OnlyAdvanceTimeChangesSession == [][SessionFrame]_vars /\ []SameAnswers

\* A query was made twice at one Julian Date with one result, and the clock
\* was then advanced by six hours, a quarter of a day
C18_Witness ==
    /\ Len(calls) = 3
    /\ calls[1].op = "limitingMagnitude"
    /\ calls[2].op = "limitingMagnitude"
    /\ calls[1].args = calls[2].args
    /\ calls[1].jd = calls[2].jd
    /\ calls[1].value = calls[2].value
    /\ calls[3].op = "advanceTime"
    /\ calls[3].args.hours = 6
    /\ session.m_jd = calls[3].jd + 25

----------------------------------------------------------------------------
(* Claims about AtmosphericModel::extinction_mag *)

\* extinction_mag has been called with two altitudes
ExtinctionProbed == probe # <<>> /\ probe[1].fn = "extinction_mag"

\* C21 as stated: extinction_mag strictly increases as altitude decreases,
\* for any two altitudes a1 < a2, given a positive extinction coefficient
\* and transparency.
C21_Original ==
    (/\ ExtinctionProbed
     /\ probe[1].cond.extinction_mag > 0 /\ probe[1].cond.transparency > 0
     /\ probe[1].a1 < probe[1].a2)
    => probe[1].e1 > probe[1].e2

\* C21: for two altitudes a1 < a2 between the horizon and 89.5 degrees,
\* extinction_mag(a1) > extinction_mag(a2), given a positive extinction
\* coefficient and transparency; at and below the horizon the extinction is
\* the same for every altitude (the airmass is clamped to 40), so over all
\* altitudes up to 89.5 degrees it never decreases as the altitude decreases.
C21_ExtinctionDecreasesAboveHorizon ==
    (/\ ExtinctionProbed
     /\ probe[1].cond.extinction_mag > 0 /\ probe[1].cond.transparency > 0
     /\ probe[1].a1 < probe[1].a2 /\ probe[1].a2 <= 8950)
    => /\ probe[1].e1 >= probe[1].e2
       /\ (probe[1].a1 >= 0 => probe[1].e1 > probe[1].e2)
       /\ (probe[1].a2 <= 0 => probe[1].e1 = probe[1].e2)

\* extinction_mag was called for 89 and 89.5 degrees and returned more for 89
C21_Witness ==
    /\ ExtinctionProbed
    /\ probe[1].a1 = 8900
    /\ probe[1].a2 = 8950
    /\ probe[1].e1 > probe[1].e2

----------------------------------------------------------------------------
(* Claims about the Julian Date conversions *)

\* A civil date and time has been converted
DateConverted == probe # <<>> /\ probe[1].fn = "to_julian_date"

\* The day after a civil date
NextDay(dt) ==
    IF dt.day < DaysInMonth(dt.year, dt.month)
    THEN [year |-> dt.year, month |-> dt.month, day |-> dt.day + 1]
    ELSE IF dt.month < 12
    THEN [year |-> dt.year, month |-> dt.month + 1, day |-> 1]
    ELSE [year |-> dt.year + 1, month |-> 1, day |-> 1]

\* The civil date of a DateTime
DateOf(dt) == [year |-> dt.year, month |-> dt.month, day |-> dt.day]

\* The civil instants a and b are at most ms milliseconds apart
Within(a, b, ms) ==
    \/ /\ DateOf(a) = DateOf(b)
       /\ TimeOfDay(a) - TimeOfDay(b) <= ms
       /\ TimeOfDay(b) - TimeOfDay(a) <= ms
    \/ /\ DateOf(b) = NextDay(a)
       /\ TimeOfDay(b) + 86400000 - TimeOfDay(a) <= ms
    \/ /\ DateOf(a) = NextDay(b)
       /\ TimeOfDay(a) + 86400000 - TimeOfDay(b) <= ms

\* C22: to_julian_date maps 2000-01-01 12:00:00 UTC to JD 2451545.0, and
\* for every valid Gregorian civil date and time dt of the supported range,
\* from_julian_date(to_julian_date(dt)) reproduces the year, month, day and
\* time of day of dt to within one second.
C22_JulianDateRoundTrip ==
    DateConverted =>
        /\ (DateOf(probe[1].dt) = [year |-> 2000, month |-> 1, day |-> 1]
              /\ TimeOfDay(probe[1].dt) = 43200000)
           => probe[1].jd = <<2451545, 0>>
        /\ Within(probe[1].dt, probe[1].back, 1000)

\* 2024-02-15 14:30:45 (a date of the month <= 2 branch, at a time that is
\* no whole number of ticks) came back as a time of that day within a second
C22_Witness ==
    /\ DateConverted
    /\ DateOf(probe[1].dt) = [year |-> 2024, month |-> 2, day |-> 15]
    /\ TimeOfDay(probe[1].dt) = 52245000
    /\ DateOf(probe[1].back) = DateOf(probe[1].dt)
    /\ TimeOfDay(probe[1].back) \in 52244000 .. 52246000

\* C30: for every valid Gregorian date and time of day in 1800-2200,
\* julianDate(year, month, day, hour) returns the same Julian Date as
\* TimeSystem::to_julian_date for the same civil instant.
C30_JulianDateImplementationsAgree ==
    DateConverted => probe[1].jd2 = probe[1].jd

\* Both were called for 29 February 2000 at 23:59:59.999 and agree
C30_Witness ==
    /\ DateConverted
    /\ DateOf(probe[1].dt) = [year |-> 2000, month |-> 2, day |-> 29]
    /\ TimeOfDay(probe[1].dt) = 86399999
    /\ probe[1].jd2 = probe[1].jd

----------------------------------------------------------------------------
(* Claims about the screen projection *)

\* A star has been projected
StarProjected == probe # <<>> /\ probe[1].fn = "horizontal_to_screen"

\* The angular separation of the projected star from the pointing
ProbedSeparation ==
    ArcCos(clamp(cosSeparation(probe[1].star, probe[1].pointing),
                 -(TrigScale * TrigScale), TrigScale * TrigScale))

\* C23: horizontal_to_screen returns 'off-screen' (nullopt) whenever the
\* angular separation between star and pointing exceeds 0.75 x fov or
\* cos(separation) <= 0, and every coordinate pair it does return satisfies
\* |x| <= 1 and |y| <= 1.
C23_OffScreenOrWithinUnitSquare ==
    StarProjected =>
        /\ (\/ 4 * ProbedSeparation > 3 * probe[1].fov
            \/ cosSeparation(probe[1].star, probe[1].pointing) <= 0)
           => ~probe[1].result.has_value
        /\ probe[1].result.has_value
           => /\ Abs(probe[1].result.value.x) <= 1000
              /\ Abs(probe[1].result.value.y) <= 1000

\* A star 5 degrees east of the pointing in a 60 degree field is on screen,
\* right of the centre
C23_Witness ==
    /\ StarProjected
    /\ probe[1].pointing = [alt |-> Deg(45), az |-> Deg(180)]
    /\ probe[1].star = [alt |-> Deg(45), az |-> Deg(185)]
    /\ probe[1].fov = Deg(60)
    /\ probe[1].result.has_value
    /\ probe[1].result.value.x \in 1 .. 999
----------------------------------------------------------------------------
(* Claims about the limiting magnitude search *)

\* limitingMagnitude has returned
LimitReturned ==
    probe # <<>> /\ probe[1].fn = "limitingMagnitude" /\ probe[1].returned

\* C24: Telescope::limitingMagnitude terminates after exactly 64 bisection
\* steps over [1, 30] and returns a magnitude within [1, 30]; when SNR
\* decreases with magnitude and crosses 5 inside that interval, the returned
\* value is within 0.001 mag of the crossing point.
C24_SixtyFourStepsToTheCrossing ==
    /\ (probe # <<>> /\ probe[1].fn = "limitingMagnitude")
       => probe[1].i <= 64
    /\ LimitReturned =>
        /\ probe[1].i = 64
        /\ kMagUnit <= probe[1].value /\ probe[1].value <= 30 * kMagUnit
        /\ (probe[1].band.from = 0
              /\ kMagUnit <= probe[1].band.to /\ probe[1].band.to <= 30 * kMagUnit)
           => Abs(probe[1].value - probe[1].band.to) <= kMagUnit \div 1000

\* The search for a ratio crossing 5 at magnitude 18.2 has returned, 18.2 to
\* a thousandth
C24_Witness ==
    /\ LimitReturned
    /\ probe[1].band = [from |-> 0, to |-> 1192755]
    /\ Abs(probe[1].value - 1192755) <= kMagUnit \div 1000

----------------------------------------------------------------------------
(* Claims about the completeness of StarCatalog::query, under SpecCatalog *)

\* C25: query returns every star in the catalog whose great-circle
\* separation from the centre is <= radius_deg and whose v_magnitude is <=
\* mag_limit: the grid-cell enumeration never excludes a qualifying star,
\* for any centre (including ones near the celestial poles or next to the RA
\* 0/360 boundary) and any star position accepted by addStar.
C25_EveryQualifyingStarReturned ==
    qarg # <<>> =>
        \A idx \in 0 .. Len(m_stars) - 1 :
            PassesFilter(StarAt(m_stars, idx), qarg[1].centre,
                         qarg[1].radius_deg, qarg[1].mag_limit)
            => idx \in Returned(result)

\* C26: query returns each catalog star at most once: no two entries of one
\* result list point to the same star, for any centre and radius (including
\* centres whose cell window is clamped at a pole or wraps around in RA).
C26_NoStarReturnedTwice ==
    qarg # <<>> =>
        \A i, j \in 1 .. Len(result) : i # j => result[i] # result[j]

----------------------------------------------------------------------------
(* Claims about the magnitude filter of generateTile *)

\* One tile has been generated under two limits
TileGeneratedTwice == probe # <<>> /\ probe[1].fn = "generateTile"

\* C27: the magnitude filter of generateTile is applied after generation and
\* does not feed back into it: for one master seed and one set of tile
\* arguments, the list produced under magnitude limit m1 equals the list
\* produced under a looser limit m2 >= m1 with the stars of v_magnitude > m1
\* removed (same ids, same properties, same order).
C27_TighterLimitIsFilteredLooserList ==
    TileGeneratedTwice =>
        probe[1].tightResult
            = SelectSeq(probe[1].looseResult,
                        LAMBDA s : ~(s.v_magnitude > probe[1].tight.m_mag_limit))

\* The looser list holds a star over the tighter limit followed by one
\* within it, and the tighter list is not empty
C27_Witness ==
    /\ TileGeneratedTwice
    /\ probe[1].tightResult # <<>>
    /\ \E i, j \in 1 .. Len(probe[1].looseResult) :
         /\ i < j
         /\ probe[1].looseResult[i].v_magnitude > probe[1].tight.m_mag_limit
         /\ probe[1].looseResult[j].v_magnitude <= probe[1].tight.m_mag_limit

----------------------------------------------------------------------------
(* Claims about Input, under SpecInput *)

\* The call just made was process_event with a non-repeat SDL_KEYDOWN for key
KeyWentDown(call, key) ==
    /\ call.op = "process_event"
    /\ call.event.type = "SDL_KEYDOWN"
    /\ call.event.scancode = key
    /\ call.event.repeat = 0

\* The call just made was process_event with an SDL_KEYUP for key
KeyWentUp(call, key) ==
    /\ call.op = "process_event"
    /\ call.event.type = "SDL_KEYUP"
    /\ call.event.scancode = key

\* What one call does to the answers about key
KeyStep(key) ==
    /\ KeyWentDown(inputCall', key) => is_key_pressed(input', key)
    /\ (is_key_pressed(input', key) /\ ~is_key_pressed(input, key))
       => KeyWentDown(inputCall', key)
    /\ inputCall'.op = "new_frame"
       => /\ ~is_key_pressed(input', key)
          /\ is_key_held(input', key) = is_key_held(input, key)
    /\ (is_key_held(input, key) /\ ~is_key_held(input', key))
       => KeyWentUp(inputCall', key)

\* C28: is_key_pressed(k) is true only during the frame in which key k went
\* down: it becomes true on a non-repeat KEYDOWN for k, is not set by
\* key-repeat KEYDOWN events, and is false for every key after the next
\* new_frame() until a new non-repeat KEYDOWN arrives, while the key stays
\* held (is_key_held(k)) across new_frame() calls until the KEYUP for k.
C28_PressedForOneFrameHeldUntilKeyUp ==
    [][\A key \in Scancodes : KeyStep(key)]_vars

\* After a key went down, a frame began and the key repeated: it is held and
\* no longer pressed
C28_Witness ==
    /\ inputCall.op = "process_event"
    /\ inputCall.event.type = "SDL_KEYDOWN"
    /\ inputCall.event.repeat = 1
    /\ is_key_held(input, inputCall.event.scancode)
    /\ ~is_key_pressed(input, inputCall.event.scancode)

----------------------------------------------------------------------------
(* Claims about the list of the DiscoveryEngine, under SpecEngine *)

\* What identifies a record of the list
Identity(d) ==
    [object_id |-> d.object_id, name |-> d.name, type |-> d.type,
     jd_discovery |-> d.jd_discovery]

\* What one call does to the list
EngineStep ==
    /\ engineCall'.op = "newDiscovery" =>
         /\ Len(m_discoveries') = Len(m_discoveries) + 1
         /\ engineCall'.ret \in 0 .. Len(m_discoveries') - 1
         /\ DiscoveryAt(m_discoveries', engineCall'.ret)
              = [object_id |-> engineCall'.object_id, name |-> engineCall'.name,
                 type |-> engineCall'.type, jd_discovery |-> engineCall'.jd,
                 n_confirmations |-> 0, observations |-> <<>>,
                 confirmed |-> FALSE]
         /\ \A i \in 0 .. Len(m_discoveries) - 1 :
                DiscoveryAt(m_discoveries', i) = DiscoveryAt(m_discoveries, i)
    /\ engineCall'.op = "recordObservation" =>
         /\ Len(m_discoveries') = Len(m_discoveries)
         /\ \A i \in 0 .. Len(m_discoveries) - 1 :
                Identity(DiscoveryAt(m_discoveries', i))
                    = Identity(DiscoveryAt(m_discoveries, i))

\* C29: newDiscovery appends one candidate record (n_confirmations = 0,
\* confirmed = false, no observations) to the engine's list and returns its
\* index, so discoveries()[returned index] is the new record; all earlier
\* records keep their index and contents, and recordObservation never adds,
\* removes or reorders records of that list.
C29_NewDiscoveryAppendsRecordObservationKeepsList ==
    [][EngineStep]_vars

\* A second candidate was registered after the first had an observation
\* recorded: it is at index 1, and the first keeps its observation
C29_Witness ==
    /\ engineCall.op = "newDiscovery"
    /\ engineCall.ret = 1
    /\ Len(m_discoveries) = 2
    /\ Len(DiscoveryAt(m_discoveries, 0).observations) = 1
    /\ DiscoveryAt(m_discoveries, 0).object_id # DiscoveryAt(m_discoveries, 1).object_id
    /\ DiscoveryAt(m_discoveries, 1).observations = <<>>

====
